---- MODULE Spec2Model ----
(***************************************************************************)
(* State-machine model of openquake/calculators/event_based.py: the        *)
(* EventBasedCalculator run (execute, agg_dicts, check_overflow,           *)
(* post_execute) and the helpers it calls.                                 *)
(*                                                                         *)
(* Numbers that can reach 2**32 (row offsets, row counts, event counts)    *)
(* are Python ints in the source.  TLC integers are 32 bit wide, so such a *)
(* number v is kept as the pair <<v \div 2^16, v % 2^16>> and the Big*     *)
(* operators below do exact arithmetic on the pairs.                       *)
(*                                                                         *)
(* Probabilities are float64 in the source.  They are kept here as reduced *)
(* fractions <<n, d>>; every value the model draws is a dyadic rational    *)
(* with a small denominator, on which float64 arithmetic is exact.         *)
(***************************************************************************)
EXTENDS Integers, Sequences, FiniteSets, TLC

\* ------------------------------------------------------------------ bounds
NumTasks == 3       \* at most this many work items are submitted
NumSites == 8       \* sites of the small site collection (sids 0..NumSites-1)
NumRlzs == 2        \* realizations (csm_info.get_num_rlzs())

\* --------------------------------------------------- wide (Python) integers
Base == 2^16

BigOfInt(n) == <<n \div Base, n % Base>>

BigZero == <<0, 0>>

BigAdd(a, b) ==
    LET lo == a[2] + b[2]
    IN  <<a[1] + b[1] + (lo \div Base), lo % Base>>

BigLt(a, b) == a[1] < b[1] \/ (a[1] = b[1] /\ a[2] < b[2])

BigLeq(a, b) == a = b \/ BigLt(a, b)

BigGeq(a, b) == ~BigLt(a, b)

BigGt(a, b) == BigLt(b, a)

\* numpy.uint32(v): v modulo 2**32
U32(a) == <<a[1] % Base, a[2]>>

\* TWO32 = 2 ** 32
TWO32 == <<Base, 0>>

\* ------------------------------------------------------------ probabilities
RECURSIVE GCD(_, _)
GCD(a, b) == IF b = 0 THEN a ELSE GCD(b, a % b)

Frac(n, d) == LET g == GCD(n, d) IN <<n \div g, d \div g>>

PZero == <<0, 1>>
PHalf == <<1, 2>>
POne == <<1, 1>>

OneMinus(p) == Frac(p[2] - p[1], p[2])

Times(p, q) == Frac(p[1] * q[1], p[2] * q[2])

Plus(p, q) == Frac(p[1] * q[2] + q[1] * p[2], p[2] * q[2])

\* mutants of the merge rule
CombineOverwrite(array, poes) == poes
CombineSum(array, poes) == Plus(array, poes)
CombineNoComplement(array, poes) == OneMinus(Times(array, OneMinus(poes)))

\* array[:] = 1. - (1. - array) * (1. - poes), one cell
Combine(array, poes) == OneMinus(Times(OneMinus(array), OneMinus(poes)))

\* ------------------------------------------------------------ configuration
\* oq.imtls: intensity measure types with their number of levels each
imtls == <<[imt |-> "PGA", n |-> 2], [imt |-> "SA", n |-> 1]>>

RECURSIVE LevelsBefore(_)
LevelsBefore(i) == IF i <= 1 THEN 0 ELSE LevelsBefore(i - 1) + imtls[i - 1].n

ImtIndex(imt) == CHOOSE i \in 1..Len(imtls) : imtls[i].imt = imt

\* self.L = len(self.oqparam.imtls.array)
L == LevelsBefore(Len(imtls) + 1)

\* imtls(imt): the slice of the levels of one imt, as first level and length
SliceStart(imt) == LevelsBefore(ImtIndex(imt))
SliceLevels(imt) ==
    SliceStart(imt) .. (SliceStart(imt) + imtls[ImtIndex(imt)].n - 1)

Rlzs == 0 .. (NumRlzs - 1)

\* limits of check_overflow: max_ = dict(sites=2**16, events=2**32, imts=2**8)
max_sites == 2^16
max_events == <<Base, 0>>
max_imts == 2^8


\* ------------------------------------------------------------------- events
\* the ruptures of work item t: one rupture with one event
Ruptures(t) ==
    <<[serial |-> t, grp_id |-> 0,
       events |-> <<[eid |-> t, ses |-> 1, sample |-> 0]>>]>>

RECURSIVE EventsOfRupture(_, _)
EventsOfRupture(ebr, evs) ==
    IF evs = <<>> THEN <<>>
    ELSE <<[eid |-> Head(evs).eid, rup |-> ebr.serial, grp_id |-> ebr.grp_id,
            year |-> 0, ses |-> Head(evs).ses, sample |-> Head(evs).sample]>>
         \o EventsOfRupture(ebr, Tail(evs))

\* get_events(ebruptures): one record per event, year 0 (set later)
RECURSIVE get_events(_)
get_events(ebruptures) ==
    IF ebruptures = <<>> THEN <<>>
    ELSE EventsOfRupture(Head(ebruptures), Head(ebruptures).events)
         \o get_events(Tail(ebruptures))

NoEvents == [exists |-> FALSE, rows |-> <<>>]

\* datastore.extend('events', rows): creates the dataset when missing
ExtendEvents(ev, rows) == [exists |-> TRUE, rows |-> ev.rows \o rows]

\* save_ruptures(ruptures), the events part
save_ruptures(ev, ruptures) ==
    IF Len(ruptures) > 0 THEN ExtendEvents(ev, get_events(ruptures)) ELSE ev

\* process_csm: save the events of every source that has ruptures
RECURSIVE SaveAllRuptures(_, _, _)
SaveAllRuptures(ev, t, n) ==
    IF t > n THEN ev
    ELSE SaveAllRuptures(save_ruptures(ev, Ruptures(t)), t + 1, n)

\* ----------------------------------------------------------- worker results
Seg(sid, n) == [sid |-> sid, n |-> n]

\* len(data)
RECURSIVE DataLen(_)
DataLen(data) ==
    IF data = <<>> THEN BigZero ELSE BigAdd(Head(data).n, DataLen(Tail(data)))

\* result['indices']: one (sid, start, stop) per site of the sorted gmfdata,
\* relative to the result's own rows, stored as uint32
RECURSIVE ResultIndices(_, _)
ResultIndices(data, start) ==
    IF data = <<>> THEN <<>>
    ELSE LET stop == BigAdd(start, Head(data).n)
         IN  <<[sid |-> Head(data).sid, start |-> U32(start), stop |-> U32(stop)]>>
             \o ResultIndices(Tail(data), stop)

NoCurves == [k \in {} |-> <<>>]

\* the dictionary compute_gmfs_curves returns
\* the result of compute_gmfs for a block with ruptures: res.events is set
\* (ruptures are not being saved), updated with the dictionary that
\* compute_gmfs_curves returns
MkResult(data, hcurves) ==
    [attrs |-> {"events"}, gmdata |-> TRUE, gmfdata |-> data,
     indices |-> ResultIndices(data, BigZero), hcurves |-> hcurves]

\* compute_gmfs_curves returned {}: neither GMFs nor curves were requested
NothingRequested ==
    [attrs |-> {"events"}, gmdata |-> FALSE, gmfdata |-> <<>>,
     indices |-> <<>>, hcurves |-> NoCurves]

\* the block held no ruptures: res = AccumDict(ruptures={})
EmptyResult ==
    [attrs |-> {}, gmdata |-> FALSE, gmfdata |-> <<>>, indices |-> <<>>,
     hcurves |-> NoCurves]

RowsOne == BigOfInt(1)
RowsHuge == <<Base - 1, Base - 2>>      \* 2**32 - 2 rows

GmfDatas ==
    { <<>>, <<Seg(7, RowsOne)>>, <<Seg(0, RowsOne), Seg(7, RowsOne)>>,
      <<Seg(0, RowsHuge)>> }

GmfResults == { MkResult(d, NoCurves) : d \in GmfDatas }

\* results with rows and curves: a key is (realization, sid, imt)
CurveKeys == { <<0, 7, "PGA">>, <<NumRlzs - 1, 7, "PGA">>, <<0, 7, "SA">> }

PoesOf(imt) == IF imt = "PGA" THEN <<PHalf, PZero>> ELSE <<PHalf>>

CurveResults ==
    { MkResult(<<Seg(7, RowsOne)>>, (k :> PoesOf(k[3]))) : k \in CurveKeys }
    \cup { MkResult(<<Seg(0, RowsOne), Seg(7, RowsOne)>>,
                    (<<0, 0, "PGA">> :> <<PHalf, PHalf>>)
                    @@ (<<0, 7, "PGA">> :> <<PHalf, POne>>)),
           MkResult(<<Seg(0, RowsHuge)>>, (<<NumRlzs - 1, 0, "SA">> :> <<PHalf>>)) }

\* what a worker can return under configuration o
ResultsFor(o) ==
    (IF o.hazard_curves_from_gmfs THEN CurveResults
     ELSE IF o.ground_motion_fields THEN GmfResults
     ELSE {NothingRequested})
    \cup (IF o.hazard_calculation_id = "None" THEN {} ELSE {EmptyResult})

Configs ==
    [hazard_calculation_id : {"None", "parent"},
     ground_motion_fields : BOOLEAN,
     save_ruptures : {FALSE},
     hazard_curves_from_gmfs : BOOLEAN,
     calculation_mode : {"event_based"},
     ses_seed : {42},
     investigation_time : {50}]


\* -------------------------------------------------------------------- state
VARIABLES
    pc,        \* position of the run: start, reduce, save_indices,
               \* post_execute, done, failed
    error,     \* the exception that ended the run, or "none"
    oq,        \* self.oqparam
    sitecol,   \* number of sites of self.sitecol (sids 0..sitecol-1)
    results,   \* work item -> the result its worker returns
    pending,   \* work items submitted and not yet merged
    acc,       \* realization -> ProbabilityMap (sid -> level -> probability)
    offset,    \* self.offset, the write pointer into gmf_data/data
    indices,   \* self.indices: (sid, 0|1) -> list of starts | stops
    gmf_data,  \* the gmf_data/data table, as runs of rows of one site
    events,    \* the events table
    dset,      \* the gmf_data/indices table
    ovf,       \* inputs and outcome of one check_overflow call (SpecOverflow)
    rupser,    \* self.rupser: the calls of save it received, in order
    twin,      \* the events table of a second run on the same events
    csm,       \* self.csm.source_models
    maxweight, \* self.csm.get_maxweight(weight, concurrent_tasks or 1)
    blocks,    \* the argument tuples gen_args has yielded so far
    gen,       \* the frame of the suspended generator gen_args
    parent,    \* self.datastore.parent: the ruptures of the parent run
    dmg        \* the damage calculator: its inputs, tasks and tables

vars == <<pc, error, oq, sitecol, results, pending, acc, offset, indices,
          gmf_data, events, dset, ovf, rupser, twin, csm, maxweight, blocks,
          gen, parent, dmg>>

\* the state of the parts of the program a specification does not run
other == <<rupser, twin, csm, maxweight, blocks, gen, parent, dmg>>

\* no damage calculation is running
DmgIdle ==
    [K |-> 0, ct |-> 0, gmf |-> <<>>, shares |-> <<>>, results |-> <<>>,
     combined |-> <<>>, table |-> <<>>, summary |-> <<>>]

\* ... as it is before that part runs: init() makes an empty serializer
OtherIdle ==
    /\ rupser = <<>>
    /\ twin = [exists |-> FALSE, rows |-> <<>>]
    /\ csm = <<>>
    /\ maxweight = 1
    /\ blocks = <<>>
    /\ gen = [sm |-> 0, sg |-> 0, queue |-> <<>>, samples |-> 0,
              sources |-> <<>>]
    /\ parent = [ruptures |-> <<>>, grp_ids |-> <<>>]
    /\ dmg = DmgIdle

NoIndices == [k \in {} |-> <<>>]
NoDset == [created |-> FALSE, rows |-> <<>>]
OvfIdle == [sites |-> 0, exists |-> FALSE, events |-> BigZero, imts |-> 0,
            out |-> "idle"]

\* zerodict(): an empty ProbabilityMap per realization
zerodict == [r \in Rlzs |-> [s \in {} |-> <<>>]]

\* the events of the parent calculation, read back in reuse mode
RECURSIVE ParentEvents(_, _)
ParentEvents(t, n) ==
    IF t > n THEN <<>> ELSE get_events(Ruptures(t)) \o ParentEvents(t + 1, n)

Init ==
    /\ pc = "start"
    /\ error = "none"
    /\ oq \in Configs
    /\ sitecol \in IF oq.hazard_curves_from_gmfs
                    THEN {NumSites} ELSE {NumSites, max_sites + 1}
    /\ \E n \in 0..NumTasks :
          /\ results \in [1..n -> ResultsFor(oq)]
          /\ IF oq.hazard_calculation_id = "None"
             THEN events = NoEvents
             ELSE \E ex \in {TRUE, n > 0} :
                     events = [exists |-> ex, rows |-> ParentEvents(1, n)]
    /\ pending = {}
    /\ acc = zerodict
    /\ offset = BigZero
    /\ indices = NoIndices
    /\ gmf_data = <<>>
    /\ dset = NoDset
    /\ ovf = OvfIdle
    /\ OtherIdle

\* ------------------------------------------------------------------ execute
\* execute(), up to submit_all: reset the accumulators, build the zero
\* dictionary (which saves the events of the sources in a fresh run) and
\* submit every work item
Execute ==
    /\ pc = "start"
    /\ offset' = BigZero
    /\ indices' = NoIndices
    /\ acc' = zerodict
    /\ events' = IF oq.hazard_calculation_id = "None"
                 THEN SaveAllRuptures(events, 1, Len(results))
                 ELSE events
    /\ pending' = DOMAIN results
    /\ pc' = "reduce"
    /\ UNCHANGED <<error, oq, sitecol, results, gmf_data, dset, ovf, other>>

\* ---------------------------------------------------------------- agg_dicts
\* self.indices[key].append(v) on a defaultdict(list)
AppendAt(ind, key, v) ==
    IF key \in DOMAIN ind THEN [ind EXCEPT ![key] = Append(@, v)]
    ELSE ind @@ (key :> <<v>>)

\* mutant: the range is shifted by the pointer after the append
ShiftAfter(i, off, n) == BigAdd(i, BigAdd(off, n))
\* mutant: the range is not shifted
ShiftNone(i, off, n) == i

\* start + self.offset, evaluated before self.offset += len(data)
Shift(i, off, n) == BigAdd(i, off)

\* for sid, start, stop in result['indices']: append the shifted range
RECURSIVE AppendIndices(_, _, _, _)
AppendIndices(ind, triples, off, n) ==
    IF triples = <<>> THEN ind
    ELSE LET h == Head(triples)
             i0 == AppendAt(ind, <<h.sid, 0>>, Shift(h.start, off, n))
             i1 == AppendAt(i0, <<h.sid, 1>>, Shift(h.stop, off, n))
         IN  AppendIndices(i1, Tail(triples), off, n)

\* mutant: the pointer is not advanced
AdvanceNot(off, n) == off
\* mutant: the pointer is advanced by one per result
AdvanceByOne(off, n) == BigAdd(off, BigOfInt(1))

\* self.offset += len(data)
Advance(off, n) == BigAdd(off, n)

\* if self.offset >= TWO32: raise RuntimeError
TooManyRows(off) == BigGeq(off, TWO32)

\* datastore.extend('gmf_data/data', data): the rows of work item t
RECURSIVE Tagged(_, _)
Tagged(data, t) ==
    IF data = <<>> THEN <<>>
    ELSE <<[sid |-> Head(data).sid, n |-> Head(data).n, task |-> t]>>
         \o Tagged(Tail(data), t)

\* the keys of hcurves that write cell (r, sid, level l)
KeysAt(hcurves, r, sid, l) ==
    { k \in DOMAIN hcurves : k[1] = r /\ k[2] = sid /\ l \in SliceLevels(k[3]) }

\* mutant: a site missing from the map starts at probability one
CellBeforeOne(pmap, sid, l) ==
    IF sid \in DOMAIN pmap THEN pmap[sid][l] ELSE POne

\* pmap.setdefault(sid, 0).array[l, 0] before the assignment: a site missing
\* from the map gets a curve of zeros
CellBefore(pmap, sid, l) ==
    IF sid \in DOMAIN pmap THEN pmap[sid][l] ELSE PZero

\* the hcurves loop: acc[r].setdefault(sid, 0).array[imtls(imt), 0] is
\* replaced by its combination with poes
MergeCurves(a, hcurves) ==
    [r \in DOMAIN a |->
        LET sids == DOMAIN a[r] \cup { k[2] : k \in { x \in DOMAIN hcurves : x[1] = r } }
        IN  [sid \in sids |->
                [l \in 0..(L - 1) |->
                    LET old == CellBefore(a[r], sid, l)
                        ks == KeysAt(hcurves, r, sid, l)
                    IN  IF ks = {} THEN old
                        ELSE LET k == CHOOSE x \in ks : TRUE
                             IN  Combine(old, hcurves[k][l - SliceStart(k[3]) + 1])]]]

\* the first lines of agg_dicts: only a result object with the attribute
\* ruptures_by_grp or events_by_grp (UCERF) extends the events table
RECURSIVE SaveEach(_, _)
SaveEach(ev, lists) ==
    IF lists = <<>> THEN ev
    ELSE SaveEach(save_ruptures(ev, Head(lists)), Tail(lists))

RECURSIVE ExtendEach(_, _)
ExtendEach(ev, lists) ==
    IF lists = <<>> THEN ev
    ELSE ExtendEach(ExtendEvents(ev, Head(lists)), Tail(lists))

\* mutant: the events bundle of compute_gmfs is appended too
AggEventsBundle(ev, result) ==
    IF "events" \in result.attrs THEN ExtendEvents(ev, result.events) ELSE ev

AggEvents(ev, result) ==
    IF "ruptures_by_grp" \in result.attrs
    THEN SaveEach(ev, result.ruptures_by_grp)
    ELSE IF "events_by_grp" \in result.attrs
    THEN ExtendEach(ev, result.events_by_grp)
    ELSE ev

\* the object compute_gmfs returns for work item t: when the block has
\* ruptures, res.events = get_events(ruptures)
Bundle(t) ==
    results[t] @@ [events |-> IF "events" \in results[t].attrs
                              THEN get_events(Ruptures(t)) ELSE <<>>]

\* agg_dicts(acc, result) for the result of work item t
AggDicts(t) ==
    /\ pc = "reduce"
    /\ t \in pending
    /\ LET result == results[t]
           n == DataLen(result.gmfdata)
           off == Advance(offset, n)
       IN  /\ IF result.gmdata
              THEN /\ gmf_data' = gmf_data \o Tagged(result.gmfdata, t)
                   /\ indices' = AppendIndices(indices, result.indices, offset, n)
                   /\ offset' = off
              ELSE UNCHANGED <<gmf_data, indices, offset>>
           /\ IF result.gmdata /\ TooManyRows(off)
              THEN /\ pc' = "failed"
                   /\ error' = "RuntimeError: too many gmf rows"
                   /\ UNCHANGED <<acc, pending>>
              ELSE /\ acc' = MergeCurves(acc, result.hcurves)
                   /\ pending' = pending \ {t}
                   /\ UNCHANGED <<pc, error>>
    /\ events' = AggEvents(events, Bundle(t))
    /\ UNCHANGED <<oq, sitecol, results, dset, ovf, other>>


\* ----------------------------------------------------------- check_overflow
\* mutant: the limits themselves are refused
check_overflow_geq(nsites, ev_exists, ev_len, nimts) ==
    LET nevents == IF ev_exists THEN ev_len ELSE BigZero
    IN  \/ nsites >= max_sites
        \/ BigGeq(nevents, max_events)
        \/ nimts >= max_imts

\* mutant: a missing events table is an error
check_overflow_missing(nsites, ev_exists, ev_len, nimts) ==
    \/ ~ev_exists
    \/ nsites > max_sites
    \/ BigGt(ev_len, max_events)
    \/ nimts > max_imts

\* TRUE when check_overflow raises ValueError; a missing events table
\* (KeyError) counts as 0 events
check_overflow(nsites, ev_exists, ev_len, nimts) ==
    LET nevents == IF ev_exists THEN ev_len ELSE BigZero
    IN  \/ nsites > max_sites
        \/ BigGt(nevents, max_events)
        \/ nimts > max_imts

\* mutant: the check does not wait for the end of the reduction
CheckOverflowEarly ==
    /\ pc = "reduce"
    /\ IF check_overflow(sitecol, events.exists, BigOfInt(Len(events.rows)),
                         Len(imtls))
       THEN pc' = "failed" /\ error' = "ValueError: overflow"
       ELSE pc' = "save_indices" /\ error' = error
    /\ UNCHANGED <<oq, sitecol, results, pending, acc, offset, indices,
                   gmf_data, events, dset, ovf, other>>

\* execute(), after the reduction: self.check_overflow()
CheckOverflowStep ==
    /\ pc = "reduce"
    /\ pending = {}
    /\ IF check_overflow(sitecol, events.exists, BigOfInt(Len(events.rows)),
                         Len(imtls))
       THEN pc' = "failed" /\ error' = "ValueError: overflow"
       ELSE pc' = "save_indices" /\ error' = error
    /\ UNCHANGED <<oq, sitecol, results, pending, acc, offset, indices,
                   gmf_data, events, dset, ovf, other>>

\* ------------------------------------------------------ gmf_data/indices
\* self.indices[key] on a defaultdict(list)
Lookup(ind, key) == IF key \in DOMAIN ind THEN ind[key] ELSE <<>>

\* storing a list in a hdf5.vuint32 dataset
VUint32(list) == [i \in 1..Len(list) |-> U32(list[i])]

\* mutant: only the sites that received rows get an entry
DenseIndexSparse(ind, N) ==
    [sid \in { k[1] : k \in DOMAIN ind } |->
        <<VUint32(Lookup(ind, <<sid, 0>>)), VUint32(Lookup(ind, <<sid, 1>>))>>]
\* mutant: starts and stops are swapped
DenseIndexSwapped(ind, N) ==
    [sid \in 0..(N - 1) |->
        <<VUint32(Lookup(ind, <<sid, 1>>)), VUint32(Lookup(ind, <<sid, 0>>))>>]

\* for sid in self.sitecol.complete.sids: dset[sid, 0] = ...; dset[sid, 1] = ...
DenseIndex(ind, N) ==
    [sid \in 0..(N - 1) |->
        <<VUint32(Lookup(ind, <<sid, 0>>)), VUint32(Lookup(ind, <<sid, 1>>))>>]

\* mutant: the index is left out in silence when no rows were recorded
SaveIndicesSilent ==
    /\ pc = "save_indices"
    /\ IF DOMAIN indices # {}
       THEN dset' = [created |-> TRUE, rows |-> DenseIndex(indices, sitecol)]
       ELSE dset' = dset
    /\ pc' = "post_execute"
    /\ error' = error
    /\ UNCHANGED <<oq, sitecol, results, pending, acc, offset, indices,
                   gmf_data, events, ovf, other>>

\* execute(), the end: save the index table, or fail when GMFs were asked
\* for and none was generated
SaveIndices ==
    /\ pc = "save_indices"
    /\ IF DOMAIN indices # {}
       THEN /\ dset' = [created |-> TRUE, rows |-> DenseIndex(indices, sitecol)]
            /\ pc' = "post_execute"
            /\ error' = error
       ELSE IF oq.ground_motion_fields /\ oq.calculation_mode # "ucerf_hazard"
       THEN /\ pc' = "failed"
            /\ error' = "RuntimeError: no GMFs"
            /\ dset' = dset
       ELSE /\ pc' = "post_execute"
            /\ error' = error
            /\ dset' = dset
    /\ UNCHANGED <<oq, sitecol, results, pending, acc, offset, indices,
                   gmf_data, events, ovf, other>>

\* ------------------------------------------------------------- post_execute
RECURSIVE Insert(_, _)
Insert(x, sorted) ==
    IF sorted = <<>> THEN <<x>>
    ELSE IF x <= Head(sorted) THEN <<x>> \o sorted
    ELSE <<Head(sorted)>> \o Insert(x, Tail(sorted))

\* numpy.sort
RECURSIVE Sort(_)
Sort(seq) == IF seq = <<>> THEN <<>> ELSE Insert(Head(seq), Sort(Tail(seq)))

\* numpy.random.choice(investigation_time, n) after numpy.random.seed(seed):
\* n draws in 0..investigation_time-1, a fixed function of the seed
RandomChoice(seed, investigation_time, n) ==
    [i \in 1..n |-> (seed * i + (i * i)) % investigation_time]

\* mutant: the table is written back in order of event-id
set_random_years_sorted(rows, seed, investigation_time) ==
    LET n == Len(rows)
        eids == Sort([i \in 1..n |-> rows[i].eid])
        at(eid) == CHOOSE i \in 1..n : rows[i].eid = eid
    IN  [i \in 1..n |->
            [rows[at(eids[i])] EXCEPT
                !.year = RandomChoice(seed, investigation_time, n)[i] + 1]]

\* mutant: the draws are used as they come, from 0
set_random_years_from_zero(rows, seed, investigation_time) ==
    LET n == Len(rows)
        eids == Sort([i \in 1..n |-> rows[i].eid])
        at(eid) == CHOOSE i \in 1..n : eids[i] = eid
    IN  [i \in 1..n |->
            [rows[i] EXCEPT
                !.year = RandomChoice(seed, investigation_time, n)[at(rows[i].eid)]]]

\* mutant: the i-th row gets the i-th year, without sorting the event-ids
set_random_years_by_row(rows, seed, investigation_time) ==
    [i \in 1..Len(rows) |->
        [rows[i] EXCEPT
            !.year = RandomChoice(seed, investigation_time, Len(rows))[i] + 1]]

\* set_random_years: year_of = dict(zip(sort(eids), years)); every event
\* gets year_of[eid]
set_random_years(rows, seed, investigation_time) ==
    LET n == Len(rows)
        years == [i \in 1..n |-> RandomChoice(seed, investigation_time, n)[i] + 1]
        eids == Sort([i \in 1..n |-> rows[i].eid])
        year_of(eid) ==
            years[CHOOSE i \in 1..n :
                     /\ eids[i] = eid
                     /\ \A j \in 1..n : eids[j] = eid => j <= i]
    IN  [i \in 1..n |-> [rows[i] EXCEPT !.year = year_of(rows[i].eid)]]

\* mutant: the years are set in a reuse run too
PostExecuteAlways ==
    /\ pc = "post_execute"
    /\ IF ~events.exists
       THEN /\ pc' = "failed"
            /\ error' = "KeyError: events"
            /\ events' = events
       ELSE IF Len(events.rows) = 0
       THEN /\ pc' = "failed"
            /\ error' = "RuntimeError: no seismic events"
            /\ events' = events
       ELSE /\ pc' = "done"
            /\ error' = error
            /\ events' = [events EXCEPT !.rows =
                   set_random_years(events.rows, oq.ses_seed,
                                    oq.investigation_time)]
    /\ UNCHANGED <<oq, sitecol, results, pending, acc, offset, indices,
                   gmf_data, dset, ovf, other>>

\* post_execute, the part on the events: a fresh run counts its events,
\* fails when there is none and sets the years; a reuse run does neither
PostExecute ==
    /\ pc = "post_execute"
    /\ IF oq.hazard_calculation_id = "None"
       THEN IF ~events.exists
            THEN /\ pc' = "failed"
                 /\ error' = "KeyError: events"
                 /\ events' = events
            ELSE IF Len(events.rows) = 0
            THEN /\ pc' = "failed"
                 /\ error' = "RuntimeError: no seismic events"
                 /\ events' = events
            ELSE /\ pc' = "done"
                 /\ error' = error
                 /\ events' = [events EXCEPT !.rows =
                        set_random_years(events.rows, oq.ses_seed,
                                         oq.investigation_time)]
       ELSE /\ pc' = "done"
            /\ error' = error
            /\ events' = events
    /\ UNCHANGED <<oq, sitecol, results, pending, acc, offset, indices,
                   gmf_data, dset, ovf, other>>

\* ------------------------------------------------------------ specification
Next ==
    \/ Execute
    \/ \E t \in 1..NumTasks : AggDicts(t)
    \/ CheckOverflowStep
    \/ SaveIndices
    \/ PostExecute

Spec == Init /\ [][Next]_vars


\* ------------------------------------- check_overflow on boundary inputs
SiteCounts == {0, 1, max_sites - 1, max_sites, max_sites + 1}
EventCounts ==
    {BigZero, BigOfInt(1), <<Base - 1, Base - 1>>, <<Base, 0>>, <<Base, 1>>}
ImtCounts == {1, max_imts - 1, max_imts, max_imts + 1}

InitOverflow ==
    /\ pc = "check_overflow"
    /\ error = "none"
    /\ oq \in { o \in Configs : o.hazard_calculation_id = "None"
                               /\ o.ground_motion_fields
                               /\ o.hazard_curves_from_gmfs }
    /\ sitecol = NumSites
    /\ results = <<>>
    /\ pending = {}
    /\ acc = zerodict
    /\ offset = BigZero
    /\ indices = NoIndices
    /\ gmf_data = <<>>
    /\ events = NoEvents
    /\ dset = NoDset
    /\ OtherIdle
    /\ \E ns \in SiteCounts, ni \in ImtCounts :
          \/ \E ne \in EventCounts :
                ovf = [sites |-> ns, exists |-> TRUE, events |-> ne,
                       imts |-> ni, out |-> "called"]
          \/ ovf = [sites |-> ns, exists |-> FALSE, events |-> BigZero,
                    imts |-> ni, out |-> "called"]

\* one call of check_overflow on the counts held in ovf
OverflowCall ==
    /\ ovf.out = "called"
    /\ ovf' = [ovf EXCEPT !.out =
                  IF check_overflow(ovf.sites, ovf.exists, ovf.events, ovf.imts)
                  THEN "ValueError" ELSE "ok"]
    /\ UNCHANGED <<pc, error, oq, sitecol, results, pending, acc, offset,
                   indices, gmf_data, events, dset, other>>

NextOverflow == OverflowCall

SpecOverflow == InitOverflow /\ [][NextOverflow]_vars


\* ------------------------------------------- save_ruptures, call after call
MaxSaves == 4       \* at most this many events and this many serializer calls

\* an EBRupture with n events; the event-ids go on from the ids in use
RuptureWith(serial, n, first) ==
    [serial |-> serial, grp_id |-> 0,
     events |-> [j \in 1..n |-> [eid |-> first + j, ses |-> 1, sample |-> 0]]]

\* the rupture lists a call of save_ruptures can receive when the events
\* table holds `first` rows: none, a rupture without events, one or two
\* ruptures with events
RuptureLists(first) ==
    { <<>>,
      <<RuptureWith(first, 0, first)>>,
      <<RuptureWith(first, 1, first)>>,
      <<RuptureWith(first, 2, first)>>,
      <<RuptureWith(first, 1, first), RuptureWith(first + 1, 2, first + 1)>> }

\* mutant: the offset is the length of the table after the append
eidx_after(len_dset, len_events) == len_dset

\* eidx=len(dset)-len(events), dset being the table after the append
eidx(len_dset, len_events) == len_dset - len_events

\* self.rupser.save(ruptures, eidx=...), when oq.save_ruptures is on
rupser_save(rs, ev, ruptures, flag) ==
    IF Len(ruptures) > 0 /\ flag
    THEN LET extended == ExtendEvents(ev, get_events(ruptures))
         IN  Append(rs, [ruptures |-> ruptures,
                         eidx |-> eidx(Len(extended.rows),
                                       Len(get_events(ruptures)))])
    ELSE rs

InitSave ==
    /\ pc = "save_ruptures"
    /\ error = "none"
    /\ \E o \in Configs, flag \in BOOLEAN :
          /\ o.hazard_calculation_id = "None"
          /\ o.ground_motion_fields /\ o.hazard_curves_from_gmfs
          /\ oq = [o EXCEPT !.save_ruptures = flag]
    /\ sitecol = NumSites
    /\ results = <<>>
    /\ pending = {}
    /\ acc = zerodict
    /\ offset = BigZero
    /\ indices = NoIndices
    /\ gmf_data = <<>>
    /\ events = NoEvents
    /\ dset = NoDset
    /\ ovf = OvfIdle
    /\ OtherIdle

\* one call self.save_ruptures(ruptures)
SaveRuptures(ruptures) ==
    /\ pc = "save_ruptures"
    /\ Len(events.rows) < MaxSaves
    /\ Len(rupser) < MaxSaves
    /\ events' = save_ruptures(events, ruptures)
    /\ rupser' = rupser_save(rupser, events, ruptures, oq.save_ruptures)
    /\ UNCHANGED <<pc, error, oq, sitecol, results, pending, acc, offset,
                   indices, gmf_data, dset, ovf, twin, csm, maxweight, blocks,
                   gen, parent, dmg>>

NextSave == \E ruptures \in RuptureLists(Len(events.rows)) : SaveRuptures(ruptures)

SpecSave == InitSave /\ [][NextSave]_vars


\* ----------------------------------------- set_random_years on two tables
MaxEvents == 3      \* at most this many events in the table

\* the event-ids in use: not consecutive, so that an id is not a position
EidPool == { k * k : k \in 1..MaxEvents }

\* a stored event, before its year is set
EventRow(eid) ==
    [eid |-> eid, rup |-> eid \div 2, grp_id |-> eid % 2, year |-> 0,
     ses |-> 1 + (eid % 3), sample |-> 0]

\* the tables that hold the events of S, each once, in any order
TablesOf(S) ==
    { [i \in 1..Cardinality(S) |-> EventRow(f[i])] :
        f \in { g \in [1..Cardinality(S) -> S] :
                  \A i, j \in 1..Cardinality(S) : i # j => g[i] # g[j] } }

Seeds == {1, 42}                \* oq.ses_seed
InvestigationTimes == {1, 3, 50}    \* int(oq.investigation_time)

InitYears ==
    /\ pc = "set_years"
    /\ error = "none"
    /\ \E o \in Configs, seed \in Seeds, T \in InvestigationTimes :
          /\ o.hazard_calculation_id = "None"
          /\ o.ground_motion_fields /\ o.hazard_curves_from_gmfs
          /\ oq = [o EXCEPT !.ses_seed = seed, !.investigation_time = T]
    /\ sitecol = NumSites
    /\ results = <<>>
    /\ pending = {}
    /\ acc = zerodict
    /\ offset = BigZero
    /\ indices = NoIndices
    /\ gmf_data = <<>>
    /\ dset = NoDset
    /\ ovf = OvfIdle
    /\ rupser = <<>>
    /\ csm = <<>>
    /\ maxweight = 1
    /\ blocks = <<>>
    /\ gen = [sm |-> 0, sg |-> 0, queue |-> <<>>, samples |-> 0,
              sources |-> <<>>]
    /\ parent = [ruptures |-> <<>>, grp_ids |-> <<>>]
    /\ dmg = DmgIdle
    /\ \E S \in (SUBSET EidPool) \ {{}} :
          \E a, b \in TablesOf(S) :
             /\ events = [exists |-> TRUE, rows |-> a]
             /\ twin = [exists |-> TRUE, rows |-> b]

\* post_execute of the run: numpy.random.seed(ses_seed); set_random_years
SetYears ==
    /\ pc \in {"set_years", "twin_done"}
    /\ events' = [events EXCEPT !.rows =
                     set_random_years(events.rows, oq.ses_seed,
                                      oq.investigation_time)]
    /\ pc' = IF pc = "set_years" THEN "first_done" ELSE "done"
    /\ UNCHANGED <<error, oq, sitecol, results, pending, acc, offset, indices,
                   gmf_data, dset, ovf, rupser, twin, csm, maxweight, blocks,
                   gen, parent, dmg>>

\* post_execute of the second run, on its own table
SetYearsTwin ==
    /\ pc \in {"set_years", "first_done"}
    /\ twin' = [twin EXCEPT !.rows =
                   set_random_years(twin.rows, oq.ses_seed,
                                    oq.investigation_time)]
    /\ pc' = IF pc = "set_years" THEN "twin_done" ELSE "done"
    /\ UNCHANGED <<error, oq, sitecol, results, pending, acc, offset, indices,
                   gmf_data, events, dset, ovf, rupser, csm, maxweight, blocks,
                   gen, parent, dmg>>

NextYears == SetYears \/ SetYearsTwin

SpecYears == InitYears /\ [][NextYears]_vars


\* ------------------------------------------------- gen_args, a fresh run
MaxSources == 3     \* at most this many sources in the first source group

\* a source: weight(src) = len(src.eb_ruptures), kept as the count n
weight(src) == src.n

RuptureCounts == {0, 1, 2}

\* the sources of group gid, one per rupture count of ws
SourcesOf(gid, ws) ==
    [i \in 1..Len(ws) |-> [id |-> (10 * gid) + i, src_group_id |-> gid, n |-> ws[i]]]

SrcGroup(gid, interdep, ws) ==
    [id |-> gid, src_interdep |-> interdep, sources |-> SourcesOf(gid, ws)]

\* the first group: up to MaxSources sources, or five sources of 50
FirstGroups ==
    { SrcGroup(0, d, ws) :
        d \in {"mutex", "indep"},
        ws \in UNION { [1..k -> RuptureCounts] : k \in 0..MaxSources }
               \cup { <<50, 50, 50, 50, 50>> } }

SecondGroups ==
    { SrcGroup(1, "indep", <<0>>), SrcGroup(1, "indep", <<2, 1>>),
      SrcGroup(1, "mutex", <<1, 0, 2>>) }

\* self.csm.source_models: two groups, in one source model or in two
SourceModels ==
    { <<[samples |-> 1, src_groups |-> <<g1, g2>>]>> :
        g1 \in FirstGroups, g2 \in SecondGroups }
    \cup { <<[samples |-> 1, src_groups |-> <<g1>>],
             [samples |-> 2, src_groups |-> <<g2>>]>> :
             g1 \in FirstGroups, g2 \in SecondGroups }

MaxWeights == {1, 2, 3, 120}

RECURSIVE TotalWeight(_)
TotalWeight(sources) ==
    IF sources = <<>> THEN 0 ELSE weight(Head(sources)) + TotalWeight(Tail(sources))

\* mutant: a block is closed after the source that fills it
RECURSIVE block_splitter_late_from(_, _, _)
block_splitter_late_from(items, max_weight, ws) ==
    IF items = <<>> THEN (IF ws = <<>> THEN <<>> ELSE <<ws>>)
    ELSE LET more == Append(ws, Head(items))
         IN  IF TotalWeight(more) >= max_weight
             THEN <<more>> \o block_splitter_late_from(Tail(items), max_weight, <<>>)
             ELSE block_splitter_late_from(Tail(items), max_weight, more)

block_splitter_late(items, max_weight) ==
    block_splitter_late_from(items, max_weight, <<>>)

\* block_splitter, the loop: ws is the block being filled
RECURSIVE block_splitter_from(_, _, _)
block_splitter_from(items, max_weight, ws) ==
    IF items = <<>> THEN (IF ws = <<>> THEN <<>> ELSE <<ws>>)
    ELSE IF TotalWeight(ws) + weight(Head(items)) > max_weight
    THEN (IF ws = <<>> THEN <<>> ELSE <<ws>>)
         \o block_splitter_from(Tail(items), max_weight, <<Head(items)>>)
    ELSE block_splitter_from(Tail(items), max_weight, Append(ws, Head(items)))

\* block_splitter(sg.sources, maxweight, weight)
block_splitter(items, max_weight) == block_splitter_from(items, max_weight, <<>>)

\* mutant: a mutex group is split like any other
group_blocks_split(sg, sources, max_weight) ==
    block_splitter(sources, max_weight)

\* the blocks of a group that has sources: the whole group when it is
\* mutex, else the blocks of block_splitter
group_blocks(sg, sources, max_weight) ==
    IF sg.src_interdep = "mutex" THEN <<sources>>
    ELSE block_splitter(sources, max_weight)

\* mutant: every source is kept
kept_all(sources) == sources

\* sg.sources = [src for src in sg.sources if src.eb_ruptures]
kept(sources) == SelectSeq(sources, LAMBDA src : src.n > 0)

\* mutant: every block is sent with the mapping of group 0
group_items_first_mapping(sg, sources, max_weight) ==
    IF sources = <<>> THEN <<>>
    ELSE LET bs == group_blocks(sg, sources, max_weight)
         IN  [k \in 1..Len(bs) |->
                [grp_id |-> 0, sources |-> bs[k],
                 mutex |-> sg.src_interdep = "mutex"]]

\* the first element of the tuples yielded for group sg
group_items(sg, sources, max_weight) ==
    IF sources = <<>> THEN <<>>
    ELSE LET bs == group_blocks(sg, sources, max_weight)
         IN  [k \in 1..Len(bs) |->
                [grp_id |-> sg.id, sources |-> bs[k],
                 mutex |-> sg.src_interdep = "mutex"]]

\* the frame of gen_args before its first step
NewFrame ==
    [sm |-> 0, sg |-> 0, queue |-> <<>>, samples |-> 0, sources |-> <<>>]

\* run the generator from frame g to its next yield (item = <<the item>>)
\* or to its end (item = <<>>); g.sources[id] is sg.sources of the groups
\* entered so far, g.samples is param['samples']
RECURSIVE resume(_)
resume(g) ==
    IF g.queue # <<>>
    THEN [gen |-> [g EXCEPT !.queue = Tail(@)], item |-> <<Head(g.queue)>>]
    ELSE IF g.sm > Len(csm) THEN [gen |-> g, item |-> <<>>]
    ELSE IF g.sm = 0 \/ g.sg >= Len(csm[g.sm].src_groups)
    THEN resume([g EXCEPT !.sm = @ + 1, !.sg = 0,
                          !.samples = IF g.sm + 1 <= Len(csm)
                                      THEN csm[g.sm + 1].samples ELSE @])
    ELSE LET sg == csm[g.sm].src_groups[g.sg + 1]
             sources == kept(sg.sources)
         IN  resume([g EXCEPT !.sg = @ + 1,
                              !.sources = (sg.id :> sources) @@ @,
                              !.queue = group_items(sg, sources, maxweight)])

InitGenArgs ==
    /\ pc = "gen_args"
    /\ error = "none"
    /\ oq \in { o \in Configs : o.hazard_calculation_id = "None"
                               /\ o.ground_motion_fields
                               /\ o.hazard_curves_from_gmfs }
    /\ sitecol = NumSites
    /\ results = <<>>
    /\ pending = {}
    /\ acc = zerodict
    /\ offset = BigZero
    /\ indices = NoIndices
    /\ gmf_data = <<>>
    /\ events = NoEvents
    /\ dset = NoDset
    /\ ovf = OvfIdle
    /\ rupser = <<>>
    /\ twin = NoEvents
    /\ csm \in SourceModels
    /\ maxweight \in MaxWeights
    /\ blocks = <<>>
    /\ gen = NewFrame
    /\ parent = [ruptures |-> <<>>, grp_ids |-> <<>>]
    /\ dmg = DmgIdle

\* one next() on gen_args: an argument tuple is yielded, or the generator ends
GenNext ==
    /\ pc = "gen_args"
    /\ LET r == resume(gen)
       IN  /\ gen' = r.gen
           /\ IF r.item = <<>>
              THEN pc' = "gen_done" /\ blocks' = blocks
              ELSE pc' = pc /\ blocks' = Append(blocks, r.item[1])
    /\ UNCHANGED <<error, oq, sitecol, results, pending, acc, offset, indices,
                   gmf_data, events, dset, ovf, rupser, twin, csm, maxweight,
                   parent, dmg>>

NextGenArgs == GenNext

SpecGenArgs == InitGenArgs /\ [][NextGenArgs]_vars


\* ------------------------------------------------- gen_args, a reuse run
MaxRuptures == 5    \* at most this many ruptures in the parent run

ConcurrentTasks == {0, 1, 2, 3}     \* oq.concurrent_tasks, 0 for None

\* split_in_slices(number, num_slices): contiguous slices [start, stop) of
\* near-equal length that cover [0, number)
split_in_slices(number, num_slices) ==
    LET k == IF number < num_slices THEN number ELSE num_slices
    IN  [i \in 1..k |-> [start |-> ((i - 1) * number) \div k,
                         stop |-> (i * number) \div k]]

\* iterating RuptureGetter(parent, slc, grp_id): the indices of the ruptures
\* of the slice that belong to the group
getter_ruptures(getter) ==
    { i \in getter.slc.start .. (getter.slc.stop - 1) :
        parent.ruptures[i + 1] = getter.grp_id }

\* samples_by_grp[grp_id], from the csm_info of the parent
samples_by_grp(grp_id) == grp_id + 1

\* mutant: the loop over the groups is the outer loop
RECURSIVE reuse_items_by_group(_, _)
reuse_items_by_group(slices, grp_ids) ==
    IF grp_ids = <<>> THEN <<>>
    ELSE [s \in 1..Len(slices) |-> [slc |-> slices[s], grp_id |-> Head(grp_ids)]]
         \o reuse_items_by_group(slices, Tail(grp_ids))

\* mutant: one getter per slice, for the first group only
reuse_items_one_group(slices, grp_ids) ==
    [s \in 1..Len(slices) |-> [slc |-> slices[s], grp_id |-> grp_ids[1]]]

\* for slc in slices: for grp_id in self.rlzs_by_gsim_grp: one RuptureGetter
RECURSIVE reuse_items(_, _)
reuse_items(slices, grp_ids) ==
    IF slices = <<>> THEN <<>>
    ELSE [g \in 1..Len(grp_ids) |-> [slc |-> Head(slices), grp_id |-> grp_ids[g]]]
         \o reuse_items(Tail(slices), grp_ids)

\* run the generator of a reuse run from frame g to its next yield or to
\* its end; param['samples'] is set before every yield
RECURSIVE resume_reuse(_)
resume_reuse(g) ==
    IF g.sm = 0
    THEN LET U == Len(parent.ruptures)
             ct == IF oq.concurrent_tasks = 0 THEN 1 ELSE oq.concurrent_tasks
         IN  resume_reuse([g EXCEPT !.sm = 1,
                 !.queue = reuse_items(split_in_slices(U, ct), parent.grp_ids)])
    ELSE IF g.queue = <<>> THEN [gen |-> g, item |-> <<>>]
    ELSE [gen |-> [g EXCEPT !.queue = Tail(@),
                            !.samples = samples_by_grp(Head(g.queue).grp_id)],
          item |-> <<Head(g.queue)>>]

InitReuse ==
    /\ pc = "gen_args"
    /\ error = "none"
    /\ \E o \in Configs, ct \in ConcurrentTasks :
          /\ o.hazard_calculation_id = "parent"
          /\ o.ground_motion_fields /\ o.hazard_curves_from_gmfs
          /\ oq = o @@ [concurrent_tasks |-> ct]
    /\ sitecol = NumSites
    /\ results = <<>>
    /\ pending = {}
    /\ acc = zerodict
    /\ offset = BigZero
    /\ indices = NoIndices
    /\ gmf_data = <<>>
    /\ events = NoEvents
    /\ dset = NoDset
    /\ ovf = OvfIdle
    /\ rupser = <<>>
    /\ twin = NoEvents
    /\ csm = <<>>
    /\ maxweight = 1
    /\ blocks = <<>>
    /\ gen = NewFrame
    /\ \E grp_ids \in {<<0>>, <<0, 1>>}, U \in 0..MaxRuptures :
          \E ruptures \in [1..U -> { grp_ids[g] : g \in 1..Len(grp_ids) }] :
             parent = [ruptures |-> ruptures, grp_ids |-> grp_ids]
    /\ dmg = DmgIdle

\* one next() on gen_args in a reuse run
GenNextReuse ==
    /\ pc = "gen_args"
    /\ oq.hazard_calculation_id # "None"
    /\ LET r == resume_reuse(gen)
       IN  /\ gen' = r.gen
           /\ IF r.item = <<>>
              THEN pc' = "gen_done" /\ blocks' = blocks
              ELSE pc' = pc /\ blocks' = Append(blocks, r.item[1])
    /\ UNCHANGED <<error, oq, sitecol, results, pending, acc, offset, indices,
                   gmf_data, events, dset, ovf, rupser, twin, csm, maxweight,
                   parent, dmg>>

NextReuse == GenNextReuse

SpecReuse == InitReuse /\ [][NextReuse]_vars


\* ------------------------------------------- the tasks of a run, one by one
\* what a task that raised sends back instead of a result
TaskFailed ==
    [attrs |-> {"exception"}, gmdata |-> FALSE, gmfdata |-> <<>>,
     indices |-> <<>>, hcurves |-> NoCurves]

\* what compute_gmfs can return or raise for a block with ruptures
TaskResults ==
    { MkResult(<<Seg(7, RowsOne)>>, (<<0, 7, "PGA">> :> PoesOf("PGA"))),
      MkResult(<<Seg(0, RowsOne), Seg(7, RowsOne)>>,
               (<<0, 0, "PGA">> :> <<PHalf, PHalf>>)
               @@ (<<0, 7, "PGA">> :> <<PHalf, POne>>)),
      TaskFailed }

\* execute() has reset the accumulators and built the zero dictionary, which
\* saved the events of the sources; gen_args has not yielded anything yet
InitTasks ==
    /\ pc = "submit"
    /\ error = "none"
    /\ oq = [hazard_calculation_id |-> "None", ground_motion_fields |-> TRUE,
             save_ruptures |-> FALSE, hazard_curves_from_gmfs |-> TRUE,
             calculation_mode |-> "event_based", ses_seed |-> 42,
             investigation_time |-> 50]
    /\ sitecol = NumSites
    /\ results = <<>>
    /\ pending = {}
    /\ acc = zerodict
    /\ offset = BigZero
    /\ indices = NoIndices
    /\ gmf_data = <<>>
    /\ dset = NoDset
    /\ ovf = OvfIdle
    /\ rupser = <<>>
    /\ twin = NoEvents
    /\ csm = <<>>
    /\ maxweight = 1
    /\ blocks = <<>>
    /\ parent = [ruptures |-> <<>>, grp_ids |-> <<>>]
    /\ dmg = DmgIdle
    /\ \E n \in 1..NumTasks :
          /\ events = SaveAllRuptures(NoEvents, 1, n)
          /\ gen = [sm |-> 1, sg |-> 0, queue |-> [t \in 1..n |-> Ruptures(t)],
                    samples |-> 1, sources |-> <<>>]

\* mutant: the reduction starts as soon as one task is submitted
SubmitStepLazy ==
    /\ pc = "submit"
    /\ IF gen.queue = <<>>
       THEN pc' = "reduce" /\ UNCHANGED <<gen, blocks, pending>>
       ELSE /\ gen' = [gen EXCEPT !.queue = Tail(@)]
            /\ blocks' = Append(blocks, Head(gen.queue))
            /\ pending' = pending \cup {Len(blocks) + 1}
            /\ pc' = "reduce"
    /\ UNCHANGED <<error, oq, sitecol, results, acc, offset, indices,
                   gmf_data, events, dset, ovf, rupser, twin, csm, maxweight,
                   parent, dmg>>

\* Starmap(...).submit_all(): take the next argument tuple from gen_args and
\* submit it as a task; submit_all returns when gen_args is exhausted and
\* only then does execute() call reduce
SubmitStep ==
    /\ pc = "submit"
    /\ IF gen.queue = <<>>
       THEN pc' = "reduce" /\ UNCHANGED <<gen, blocks, pending>>
       ELSE /\ gen' = [gen EXCEPT !.queue = Tail(@)]
            /\ blocks' = Append(blocks, Head(gen.queue))
            /\ pending' = pending \cup {Len(blocks) + 1}
            /\ pc' = pc
    /\ UNCHANGED <<error, oq, sitecol, results, acc, offset, indices,
                   gmf_data, events, dset, ovf, rupser, twin, csm, maxweight,
                   parent, dmg>>

\* mutant: the worker saves the events of its block itself
WorkerStepSaves(t) ==
    /\ t \in pending
    /\ t \notin DOMAIN results
    /\ \E r \in TaskResults : results' = results @@ (t :> r)
    /\ events' = ExtendEvents(events, get_events(Ruptures(t)))
    /\ UNCHANGED <<pc, error, oq, sitecol, pending, acc, offset, indices,
                   gmf_data, dset, ovf, rupser, twin, csm, maxweight,
                   blocks, gen, parent, dmg>>

\* a worker runs compute_gmfs on a submitted block to its end: it returns a
\* result or raises, and touches nothing of the calculator
WorkerStep(t) ==
    /\ t \in pending
    /\ t \notin DOMAIN results
    /\ \E r \in TaskResults : results' = results @@ (t :> r)
    /\ UNCHANGED <<pc, error, oq, sitecol, pending, acc, offset, indices,
                   gmf_data, events, dset, ovf, rupser, twin, csm, maxweight,
                   blocks, gen, parent, dmg>>

\* ires.reduce(self.agg_dicts, acc), one turn of its loop on a task that
\* has returned: agg_dicts merges the result
MergeStep(t) ==
    /\ t \in DOMAIN results
    /\ results[t] # TaskFailed
    /\ AggDicts(t)

\* mutant: the exception of a task is swallowed and the task dropped
FailStepSwallowed(t) ==
    /\ pc = "reduce"
    /\ t \in pending
    /\ t \in DOMAIN results
    /\ results[t] = TaskFailed
    /\ pending' = pending \ {t}
    /\ UNCHANGED <<pc, error, oq, sitecol, results, acc, offset, indices,
                   gmf_data, events, dset, ovf, rupser, twin, csm,
                   maxweight, blocks, gen, parent, dmg>>

\* ires.reduce(self.agg_dicts, acc), one turn of its loop on a task that
\* has raised: the exception is raised again in execute(), which has no
\* handler, so nothing after the reduction runs
FailStep(t) ==
    /\ pc = "reduce"
    /\ t \in pending
    /\ t \in DOMAIN results
    /\ results[t] = TaskFailed
    /\ pc' = "failed"
    /\ error' = "task exception"
    /\ UNCHANGED <<oq, sitecol, results, pending, acc, offset, indices,
                   gmf_data, events, dset, ovf, rupser, twin, csm,
                   maxweight, blocks, gen, parent, dmg>>

NextTasks ==
    \/ SubmitStep
    \/ \E t \in 1..NumTasks : WorkerStep(t)
    \/ \E t \in 1..NumTasks : MergeStep(t)
    \/ \E t \in 1..NumTasks : FailStep(t)
    \/ CheckOverflowStep
    \/ SaveIndices
    \/ PostExecute

SpecTasks == InitTasks /\ [][NextTasks]_vars


\* ------------------------------------------------------ event_based_damage
\* Damages are counted in tenths, so that a fraction of 0.1 is 1 and two
\* assets in a state is 20; arrays keep the 0-based indices of the source.
MaxGmfRows == 3     \* at most this many rows in gmf_data

\* numpy.uint16(v), numpy.uint8(v)
U16(v) == v % 2^16
U8(v) == v % 2^8

LossTypes == <<"structural", "contents">>       \* crmodel.loss_types
DamageStates == <<"no_damage", "collapse">>     \* crmodel.damage_states

\* crmodel.get_dmg_csq(): the damage states but the first, then the
\* consequences
dmg_csq == <<"collapse", "losses">>

LT == Len(LossTypes)            \* L = len(crmodel.loss_types)
D == Len(DamageStates)          \* D = len(crmodel.damage_states)

\* ci = {dc: i + 1 for i, dc in enumerate(dmg_csq)}
ci(name) == CHOOSE c \in 1..Len(dmg_csq) : dmg_csq[c] = name
DC == Len(dmg_csq) + 1          \* DC = len(ci) + 1

\* assetcol/array: three assets on two sites, of two taxonomies
Assets ==
    <<[ordinal |-> 0, site_id |-> 0, taxonomy |-> 1, number |-> 10, kid |-> 0],
      [ordinal |-> 1, site_id |-> 0, taxonomy |-> 1, number |-> 5, kid |-> 1],
      [ordinal |-> 2, site_id |-> 1, taxonomy |-> 2, number |-> 3, kid |-> 1]>>

\* kids = dstore['assetcol/kids'][:] if K else numpy.zeros(len(assets_df), U16)
kids(K) ==
    [aid \in 0..(Len(Assets) - 1) |-> IF K # 0 THEN Assets[aid + 1].kid ELSE 0]

\* the rows gmf_data can hold: (sid, eid, gmv), with one eid above 2**32
GmfPool ==
    { [sid |-> 0, eid |-> <<0, 1>>, gmv |-> 1],
      [sid |-> 1, eid |-> <<0, 1>>, gmv |-> 2],
      [sid |-> 1, eid |-> <<0, 2>>, gmv |-> 2],
      [sid |-> 0, eid |-> <<Base, 1>>, gmv |-> 1] }

GmfTables ==
    { g \in UNION { [1..n -> GmfPool] : n \in 1..MaxGmfRows } :
        \A i, j \in 1..Len(g) : g[i] = g[j] => i = j }

\* the i-th smallest element of a set of numbers
Nth(P, i) == CHOOSE p \in P : Cardinality({ q \in P : q < p }) = i - 1

\* every way of cutting the n rows of gmf_data in contiguous non-empty
\* slices, one per task
Divisions(n) ==
    { [i \in 1..(Cardinality(C) + 1) |->
          [start |-> Nth(C \cup {0, n}, i), stop |-> Nth(C \cup {0, n}, i + 1)]] :
      C \in SUBSET (1..(n - 1)) }

\* dstore.read_df(name, slc=slc)
ReadSlice(rows, slc) == SubSeq(rows, slc.start + 1, slc.stop)

\* the fractions of the assets in each damage state, in tenths
Fraction(asset, gmv, lti) ==
    LET f == 9 - asset.ordinal - 3 * lti + (gmv - 1)
    IN  [d \in 0..(D - 1) |-> IF d = 0 THEN 10 - f ELSE f]

\* crmodel.get_output(taxo, adf, gmf_df): fractions of shape (A, E, D) per
\* loss type, for the events of gmf_df
get_output(taxo, adf, gmf_df) ==
    [eids |-> [e \in 1..Len(gmf_df) |-> gmf_df[e].eid],
     assets |-> adf,
     fractions |->
        [lti \in 0..(LT - 1) |->
            [a \in 1..Len(adf) |->
                [e \in 1..Len(gmf_df) |-> Fraction(adf[a], gmf_df[e].gmv, lti)]]]]

\* crmodel.compute_csq(asset, fractions[a], lt): name -> one value per event
compute_csq(asset, fractions_a, lti) ==
    [name \in {"losses"} |->
        [e \in 1..Len(fractions_a) |-> 3 * fractions_a[e][D - 1]]]

\* mutant: the fractions are not multiplied by the number of assets
ddd_unscaled(out, lti) ==
    [a \in 1..Len(out.assets) |->
        LET csq == compute_csq(out.assets[a], out.fractions[lti][a], lti)
        IN  [e \in 1..Len(out.eids) |->
                [c \in 0..(DC - 1) |->
                    IF c > 0 /\ dmg_csq[c] \in DOMAIN csq THEN csq[dmg_csq[c]][e]
                    ELSE IF c < D THEN out.fractions[lti][a][e][c]
                    ELSE 0]]]

\* ddd of shape (A, E, DC): the fractions times asset['number'] in the
\* first D columns, then the consequences in their columns ci[name]
ddd_of(out, lti) ==
    [a \in 1..Len(out.assets) |->
        LET csq == compute_csq(out.assets[a], out.fractions[lti][a], lti)
        IN  [e \in 1..Len(out.eids) |->
                [c \in 0..(DC - 1) |->
                    IF c > 0 /\ dmg_csq[c] \in DOMAIN csq THEN csq[dmg_csq[c]][e]
                    ELSE IF c < D THEN out.assets[a].number * out.fractions[lti][a][e][c]
                    ELSE 0]]]

\* tot = ddd.sum(axis=0), for event e
RECURSIVE tot_from(_, _, _)
tot_from(ddd, e, a) ==
    IF a > Len(ddd) THEN [c \in 0..(DC - 1) |-> 0]
    ELSE [c \in 0..(DC - 1) |-> ddd[a][e][c] + tot_from(ddd, e, a + 1)[c]]

RECURSIVE Chain(_)
Chain(seqs) == IF seqs = <<>> THEN <<>> ELSE Head(seqs) \o Chain(Tail(seqs))

\* mutant: the bucket of the asset is filled whatever K is
adds_always(out, lti, K) ==
    LET ddd == ddd_of(out, lti)
    IN  Chain([e \in 1..Len(out.eids) |->
            <<[key |-> <<out.eids[e], K>>, lti |-> lti, vec |-> tot_from(ddd, e, 1)]>>
            \o [a \in 1..Len(out.assets) |->
                      [key |-> <<out.eids[e], kids(K)[out.assets[a].ordinal]>>,
                       lti |-> lti, vec |-> ddd[a][e]]]])

\* mutant: the total bucket receives the damage of the first asset only
adds_first_asset(out, lti, K) ==
    LET ddd == ddd_of(out, lti)
    IN  Chain([e \in 1..Len(out.eids) |->
            <<[key |-> <<out.eids[e], K>>, lti |-> lti, vec |-> ddd[1][e]]>>
            \o (IF K # 0
                THEN [a \in 1..Len(out.assets) |->
                        [key |-> <<out.eids[e], kids(K)[out.assets[a].ordinal]>>,
                         lti |-> lti, vec |-> ddd[a][e]]]
                ELSE <<>>)])

\* the additions to dddict for one (taxonomy, site) and one loss type, in
\* the order of the loops (lines 92-97): for every event the total bucket
\* (eid, K) and, if K, the bucket (eid, kids[aid]) of every asset
adds(out, lti, K) ==
    LET ddd == ddd_of(out, lti)
    IN  Chain([e \in 1..Len(out.eids) |->
            <<[key |-> <<out.eids[e], K>>, lti |-> lti, vec |-> tot_from(ddd, e, 1)]>>
            \o (IF K # 0
                THEN [a \in 1..Len(out.assets) |->
                        [key |-> <<out.eids[e], kids(K)[out.assets[a].ordinal]>>,
                         lti |-> lti, vec |-> ddd[a][e]]]
                ELSE <<>>)])

\* the keys of assets_df.groupby('taxonomy') and, within,
\* asset_df.groupby('site_id'), in the order of the loops
GroupKeys ==
    LET nt == Cardinality({ Assets[a].taxonomy : a \in 1..Len(Assets) })
        ns == Cardinality({ Assets[a].site_id : a \in 1..Len(Assets) })
    IN  SelectSeq([i \in 1..(nt * ns) |-> <<((i - 1) \div ns) + 1, (i - 1) % ns>>],
                  LAMBDA k : \E a \in 1..Len(Assets) :
                      Assets[a].taxonomy = k[1] /\ Assets[a].site_id = k[2])

\* all the additions of one task on the GMF rows df; a site without GMF
\* rows is skipped
all_adds(df, K) ==
    Chain([g \in 1..Len(GroupKeys) |->
        LET adf == SelectSeq(Assets, LAMBDA a :
                       a.taxonomy = GroupKeys[g][1] /\ a.site_id = GroupKeys[g][2])
            gmf_df == SelectSeq(df, LAMBDA r : r.sid = GroupKeys[g][2])
        IN  IF Len(gmf_df) = 0 THEN <<>>
            ELSE Chain([l \in 1..LT |->
                     adds(get_output(GroupKeys[g][1], adf, gmf_df), l - 1, K)])])

\* dddict[key][lti] += vec on an AccumDict(accum=numpy.zeros((L, DC)))
RECURSIVE accumulate(_, _)
accumulate(dddict, todo) ==
    IF todo = <<>> THEN dddict
    ELSE LET x == Head(todo)
             old == IF x.key \in DOMAIN dddict THEN dddict[x.key]
                    ELSE [l \in 0..(LT - 1) |-> [c \in 0..(DC - 1) |-> 0]]
             new == [old EXCEPT ![x.lti] = [c \in 0..(DC - 1) |-> @[c] + x.vec[c]]]
         IN  accumulate((x.key :> new) @@ dddict, Tail(todo))

\* fix_dtype(dic, dtype, names)
fix_dtype(dic, dtype, names) ==
    [name \in DOMAIN dic |->
        IF name \in names
        THEN [i \in 1..Len(dic[name]) |->
                 IF dtype = "U32" THEN U32(dic[name][i])
                 ELSE IF dtype = "U16" THEN U16(dic[name][i])
                 ELSE U8(dic[name][i])]
        ELSE dic[name]]

\* sorted(adic): the keys (eid, kid) in increasing order
KeyLt(j, k) == BigLt(j[1], k[1]) \/ (j[1] = k[1] /\ j[2] < k[2])
SortedKeys(S) ==
    [i \in 1..Cardinality(S) |->
        CHOOSE k \in S : Cardinality({ j \in S : KeyLt(j, k) }) = i - 1]

Columns == {"event_id", "agg_id", "loss_id"} \cup { dmg_csq[c] : c \in 1..Len(dmg_csq) }

\* to_dframe(adic, ci, L): one row per sorted key and loss type, one column
\* per name of ci, then the index columns are narrowed (the damages are
\* float32 from the start)
to_dframe(adic) ==
    LET keys == SortedKeys(DOMAIN adic)
        key(r) == keys[((r - 1) \div LT) + 1]
        lti(r) == (r - 1) % LT
        dic == [name \in Columns |->
                   [r \in 1..(Len(keys) * LT) |->
                       IF name = "event_id" THEN key(r)[1]
                       ELSE IF name = "agg_id" THEN key(r)[2]
                       ELSE IF name = "loss_id" THEN lti(r)
                       ELSE adic[key(r)][lti(r)][ci(name)]]]
    IN  fix_dtype(fix_dtype(fix_dtype(dic, "U32", {"event_id"}),
                            "U16", {"agg_id"}), "U8", {"loss_id"})

\* event_based_damage(df, param, monitor) on a slice of gmf_data; dddict is
\* kept next to the frame that is returned
event_based_damage(slc, K, gmf) ==
    LET dddict == accumulate(<<>>, all_adds(ReadSlice(gmf, slc), K))
    IN  [missing |-> FALSE, dddict |-> dddict, df |-> to_dframe(dddict)]

\* the result of a task that could not be materialized: None
MissingResult == [missing |-> TRUE, dddict |-> <<>>, df |-> <<>>]

\* the datasets agg_damage_table/<name>, empty
EmptyTable == [name \in Columns |-> <<>>]

\* mutant: a missing result is passed over
combine_skips(table, res) ==
    IF res.missing THEN [raised |-> FALSE, table |-> table]
    ELSE [raised |-> FALSE,
          table |-> [name \in DOMAIN table |->
                        IF name \in DOMAIN res.df THEN table[name] \o res.df[name]
                        ELSE table[name]]]

\* mutant: the table holds the last result only
combine_replaces(table, res) ==
    IF res.missing THEN [raised |-> TRUE, table |-> table]
    ELSE [raised |-> FALSE,
          table |-> [name \in DOMAIN table |->
                        IF name \in DOMAIN res.df THEN res.df[name]
                        ELSE table[name]]]

\* mutant: only the identifier columns are extended
combine_ids_only(table, res) ==
    IF res.missing THEN [raised |-> TRUE, table |-> table]
    ELSE [raised |-> FALSE,
          table |-> [name \in DOMAIN table |->
                        IF name \in {"event_id", "agg_id", "loss_id"}
                        THEN table[name] \o res.df[name]
                        ELSE table[name]]]

\* combine(acc, res): raise MemoryError on None, else extend every column
combine(table, res) ==
    IF res.missing THEN [raised |-> TRUE, table |-> table]
    ELSE [raised |-> FALSE,
          table |-> [name \in DOMAIN table |->
                        IF name \in DOMAIN res.df THEN table[name] \o res.df[name]
                        ELSE table[name]]]

\* the sum of column name over the rows of set R
RECURSIVE ColumnSum(_, _, _)
ColumnSum(table, name, R) ==
    IF R = {} THEN 0
    ELSE LET r == CHOOSE r \in R : TRUE
         IN  table[name][r] + ColumnSum(table, name, R \ {r})

\* mutant: the last row of the slice is left out
agg_damages_short(table, slc) ==
    LET R == (slc.start + 1)..(slc.stop - 1)
        S == { <<table.agg_id[r], table.loss_id[r]>> : r \in R }
        keys == [i \in 1..Cardinality(S) |->
                    CHOOSE k \in S : Cardinality({ j \in S :
                        j[1] < k[1] \/ (j[1] = k[1] /\ j[2] < k[2]) }) = i - 1]
    IN  [i \in 1..Len(keys) |->
            [key |-> keys[i],
             dmgs |-> [c \in 0..(Len(dmg_csq) - 1) |->
                 ColumnSum(table, dmg_csq[c + 1],
                     { r \in R : <<table.agg_id[r], table.loss_id[r]>> = keys[i] })]]]

\* agg_damages(dstore, slc, monitor): the rows of the slice without their
\* event_id, grouped by (agg_id, loss_id) and summed; a dict in key order
agg_damages(table, slc) ==
    LET R == (slc.start + 1)..slc.stop
        S == { <<table.agg_id[r], table.loss_id[r]>> : r \in R }
        keys == [i \in 1..Cardinality(S) |->
                    CHOOSE k \in S : Cardinality({ j \in S :
                        j[1] < k[1] \/ (j[1] = k[1] /\ j[2] < k[2]) }) = i - 1]
    IN  [i \in 1..Len(keys) |->
            [key |-> keys[i],
             dmgs |-> [c \in 0..(Len(dmg_csq) - 1) |->
                 ColumnSum(table, dmg_csq[c + 1],
                     { r \in R : <<table.agg_id[r], table.loss_id[r]>> = keys[i] })]]]

\* acc + dic in smap.reduce(): the values of a key already in acc are
\* summed, a new key is added after the others
RECURSIVE accum_add(_, _)
accum_add(agg, dic) ==
    IF dic = <<>> THEN agg
    ELSE LET x == Head(dic)
             next == IF \E i \in 1..Len(agg) : agg[i].key = x.key
                     THEN [i \in 1..Len(agg) |->
                             IF agg[i].key = x.key
                             THEN [agg[i] EXCEPT !.dmgs =
                                     [c \in DOMAIN @ |-> @[c] + x.dmgs[c]]]
                             ELSE agg[i]]
                     ELSE Append(agg, x)
         IN  accum_add(next, Tail(dic))

\* smap.reduce() over the partial dicts, taken in the order `order`
RECURSIVE reduce_agg(_, _, _)
reduce_agg(agg, dics, order) ==
    IF order = <<>> THEN agg
    ELSE reduce_agg(accum_add(agg, dics[Head(order)]), dics, Tail(order))

\* post_execute, after the reduction: the frame dmg_csq, one row per item
\* of agg, alias = {dc: i for i, dc in enumerate(dmg_csq)}
summary_of(agg) ==
    LET dic == [name \in Columns \ {"event_id"} |->
                   [i \in 1..Len(agg) |->
                       IF name = "agg_id" THEN agg[i].key[1]
                       ELSE IF name = "loss_id" THEN agg[i].key[2]
                       ELSE agg[i].dmgs[ci(name) - 1]]]
    IN  fix_dtype(fix_dtype(dic, "U16", {"agg_id"}), "U8", {"loss_id"})

\* the orders in which n partial results can be merged
Orders(n) ==
    { o \in [1..n -> 1..n] : \A i, j \in 1..n : o[i] = o[j] => i = j }

InitDamage ==
    /\ pc = "damage"
    /\ error = "none"
    /\ oq = [hazard_calculation_id |-> "parent", ground_motion_fields |-> TRUE,
             save_ruptures |-> FALSE, hazard_curves_from_gmfs |-> FALSE,
             calculation_mode |-> "event_based_damage", ses_seed |-> 42,
             investigation_time |-> 50]
    /\ sitecol = NumSites
    /\ results = <<>>
    /\ pending = {}
    /\ acc = zerodict
    /\ offset = BigZero
    /\ indices = NoIndices
    /\ gmf_data = <<>>
    /\ events = NoEvents
    /\ dset = NoDset
    /\ ovf = OvfIdle
    /\ rupser = <<>>
    /\ twin = NoEvents
    /\ csm = <<>>
    /\ maxweight = 1
    /\ blocks = <<>>
    /\ gen = [sm |-> 0, sg |-> 0, queue |-> <<>>, samples |-> 0,
              sources |-> <<>>]
    /\ parent = [ruptures |-> <<>>, grp_ids |-> <<>>]
    /\ \E K \in {0, 2}, ct \in {0, 2, 3}, gmf \in GmfTables :
          \E shares \in Divisions(Len(gmf)) :
             dmg = [K |-> K, ct |-> ct, gmf |-> gmf, shares |-> shares,
                    results |-> <<>>, combined |-> <<>>, table |-> EmptyTable,
                    summary |-> <<>>]

\* a task of execute() runs event_based_damage on its slice of gmf_data,
\* or its result cannot be materialized
DamageTask(t) ==
    /\ pc = "damage"
    /\ t \in 1..Len(dmg.shares)
    /\ t \notin DOMAIN dmg.results
    /\ \E r \in {event_based_damage(dmg.shares[t], dmg.K, dmg.gmf), MissingResult} :
          dmg' = [dmg EXCEPT !.results = @ @@ (t :> r)]
    /\ UNCHANGED <<pc, error, oq, sitecol, results, pending, acc, offset,
                   indices, gmf_data, events, dset, ovf, rupser, twin, csm,
                   maxweight, blocks, gen, parent>>

\* smap.reduce(self.combine), one turn: combine the result of task t
CombineStep(t) ==
    /\ pc = "damage"
    /\ t \in DOMAIN dmg.results
    /\ \A i \in 1..Len(dmg.combined) : dmg.combined[i] # t
    /\ LET c == combine(dmg.table, dmg.results[t])
       IN  IF c.raised
           THEN /\ pc' = "failed"
                /\ error' = "MemoryError"
                /\ dmg' = [dmg EXCEPT !.table = c.table]
           ELSE /\ pc' = pc
                /\ error' = error
                /\ dmg' = [dmg EXCEPT !.table = c.table,
                                      !.combined = Append(@, t)]
    /\ UNCHANGED <<oq, sitecol, results, pending, acc, offset, indices,
                   gmf_data, events, dset, ovf, rupser, twin, csm, maxweight,
                   blocks, gen, parent>>

\* post_execute(): cut the table in slices, sum each slice by
\* (agg_id, loss_id), merge the partial sums as the tasks complete and
\* store the frame dmg_csq
DamagePostExecute ==
    /\ pc = "damage"
    /\ Len(dmg.combined) = Len(dmg.shares)
    /\ LET len_table == Len(dmg.table.event_id)
           slices == split_in_slices(len_table, IF dmg.ct = 0 THEN 1 ELSE dmg.ct)
           dics == [s \in 1..Len(slices) |-> agg_damages(dmg.table, slices[s])]
       IN  \E order \in Orders(Len(slices)) :
              dmg' = [dmg EXCEPT !.summary = summary_of(reduce_agg(<<>>, dics, order))]
    /\ pc' = "done"
    /\ UNCHANGED <<error, oq, sitecol, results, pending, acc, offset, indices,
                   gmf_data, events, dset, ovf, rupser, twin, csm, maxweight,
                   blocks, gen, parent>>

NextDamage ==
    \/ \E t \in 1..MaxGmfRows : DamageTask(t)
    \/ \E t \in 1..MaxGmfRows : CombineStep(t)
    \/ DamagePostExecute

SpecDamage == InitDamage /\ [][NextDamage]_vars


\* ------------------------------------------- compute_gmfs, the worker side
\* src.eb_ruptures: weight(src) ruptures of the group of the source, one
\* event each
eb_ruptures(src) ==
    [j \in 1..src.n |->
       [serial |-> (100 * src.id) + j, grp_id |-> src.src_group_id,
        events |-> <<[eid |-> (100 * src.id) + j, ses |-> 1, sample |-> 0]>>]]

\* list(RuptureGetter(parent, slc, grp_id)): the stored ruptures of the slice
\* that belong to the group, in the order of the slice
stored_ruptures(getter) ==
    LET slice == [k \in 1..(getter.slc.stop - getter.slc.start) |->
                    getter.slc.start + k - 1]
        mine == SelectSeq(slice, LAMBDA i : i \in getter_ruptures(getter))
    IN  [k \in 1..Len(mine) |->
           [serial |-> mine[k], grp_id |-> parent.ruptures[mine[k] + 1],
            events |-> <<[eid |-> mine[k], ses |-> 1, sample |-> 0]>>]]

\* GmfGetter(rlzs_by_gsim, ruptures, sitecol, oqparam, min_iml, samples)
\* .compute_gmfs_curves(monitor): the rows of the ruptures on site 0 when
\* GMFs are requested, together with the arguments they were made with
compute_gmfs_curves(rlzs_by_gsim, ruptures, o, samples) ==
    [gmdata |-> o.ground_motion_fields,
     gmfdata |-> IF o.ground_motion_fields
                 THEN <<Seg(0, BigOfInt(Len(ruptures)))>> ELSE <<>>,
     getter |-> <<[rlzs_by_gsim |-> rlzs_by_gsim, samples |-> samples]>>]

\* res = AccumDict(ruptures={}) of compute_gmfs, before anything is added
EmptyBundle ==
    [attrs |-> {}, events |-> <<>>, ruptures |-> <<>>, gmdata |-> FALSE,
     gmfdata |-> <<>>, getter |-> <<>>]

\* mutant: the events are returned also when the ruptures are
compute_gmfs_both(item, param) ==
    LET is_getter == "slc" \in DOMAIN item
        grp_id == IF is_getter THEN item.grp_id
                  ELSE item.sources[1].src_group_id
        ruptures == IF is_getter THEN stored_ruptures(item)
                    ELSE Chain([i \in 1..Len(item.sources) |->
                                  eb_ruptures(item.sources[i])])
    IN  IF ruptures = <<>> THEN EmptyBundle
        ELSE [attrs |-> {"events"}, events |-> get_events(ruptures),
              ruptures |-> IF ~param.oqparam.save_ruptures \/ is_getter
                           THEN <<>> ELSE (grp_id :> ruptures)]
             @@ compute_gmfs_curves(item.grp_id, ruptures, param.oqparam,
                                    param.samples)

\* compute_gmfs(sources_or_ruptures, src_filter, rlzs_by_gsim, param,
\* monitor): item.grp_id stands for the rlzs_by_gsim sent with the item, a
\* RuptureGetter is an item with a slice
compute_gmfs(item, param) ==
    LET is_getter == "slc" \in DOMAIN item
        grp_id == IF is_getter THEN item.grp_id
                  ELSE item.sources[1].src_group_id
        ruptures == IF is_getter THEN stored_ruptures(item)
                    ELSE Chain([i \in 1..Len(item.sources) |->
                                  eb_ruptures(item.sources[i])])
    IN  IF ruptures = <<>> THEN EmptyBundle
        ELSE (IF ~param.oqparam.save_ruptures \/ is_getter
              THEN [attrs |-> {"events"}, events |-> get_events(ruptures),
                    ruptures |-> <<>>]
              ELSE [attrs |-> {}, events |-> <<>>,
                    ruptures |-> (grp_id :> ruptures)])
             @@ compute_gmfs_curves(item.grp_id, ruptures, param.oqparam,
                                    param.samples)

\* the number of sources of source models c
NumSources(c) ==
    LET count(sm) == Len(Chain([g \in 1..Len(sm.src_groups) |->
                                   sm.src_groups[g].sources]))
    IN  Len(Chain([m \in 1..Len(c) |-> [x \in 1..count(c[m]) |-> m]]))

\* a run that generates its work items and hands them to workers: fresh
\* with at most four sources, or reuse with at most three stored ruptures
InitWorker ==
    /\ pc = "gen_args"
    /\ error = "none"
    /\ \E o \in Configs, sav \in BOOLEAN, ct \in {0, 2} :
          /\ o.ground_motion_fields /\ ~o.hazard_curves_from_gmfs
          /\ oq = [o EXCEPT !.save_ruptures = sav] @@ [concurrent_tasks |-> ct]
    /\ sitecol = NumSites
    /\ results = <<>>
    /\ pending = {}
    /\ acc = zerodict
    /\ offset = BigZero
    /\ indices = NoIndices
    /\ gmf_data = <<>>
    /\ events = NoEvents
    /\ dset = NoDset
    /\ ovf = OvfIdle
    /\ rupser = <<>>
    /\ twin = NoEvents
    /\ blocks = <<>>
    /\ gen = NewFrame
    /\ IF oq.hazard_calculation_id = "None"
       THEN /\ csm \in { c \in SourceModels : NumSources(c) <= 4 }
            /\ maxweight \in {1, 120}
            /\ parent = [ruptures |-> <<>>, grp_ids |-> <<>>]
       ELSE /\ csm = <<>>
            /\ maxweight = 1
            /\ \E U \in 0..3 :
                  \E ruptures \in [1..U -> {0, 1}] :
                     parent = [ruptures |-> ruptures, grp_ids |-> <<0, 1>>]
    /\ dmg = DmgIdle

\* one next() on gen_args of a fresh run
GenNextFresh == oq.hazard_calculation_id = "None" /\ GenNext

\* the worker of item k takes its arguments (param is the one dictionary
\* gen_args yields with every item, as it is at that moment) and returns
\* what compute_gmfs makes of them
Work(k) ==
    /\ k \in 1..Len(blocks)
    /\ k \notin DOMAIN results
    /\ results' = results @@
          (k :> compute_gmfs(blocks[k], [oqparam |-> oq, samples |-> gen.samples]))
    /\ UNCHANGED <<pc, error, oq, sitecol, pending, acc, offset, indices,
                   gmf_data, events, dset, ovf, rupser, twin, csm, maxweight,
                   blocks, gen, parent, dmg>>

NextWorker ==
    \/ GenNextFresh
    \/ GenNextReuse
    \/ \E k \in 1..(MaxSources + 5) : Work(k)

SpecWorker == InitWorker /\ [][NextWorker]_vars


\* a returned result is taken by the reduction: the step of MergeStep(t) as
\* it shows on the set of pending tasks
MergeTaken(t) ==
    /\ pc = "reduce"
    /\ t \in pending
    /\ t \in DOMAIN results
    /\ results[t] # TaskFailed
    /\ pending' = pending \ {t}

\* the tasks of a run under fair scheduling: execute() is sequential code
\* that goes on with its next step, every submitted task is run to its end
\* by a worker, and the reduction takes a result that has arrived
SpecTasksFair ==
    /\ InitTasks
    /\ [][NextTasks]_vars
    /\ WF_vars(SubmitStep)
    /\ WF_vars(\E t \in 1..NumTasks : WorkerStep(t))
    /\ WF_pending(\E t \in 1..NumTasks : MergeTaken(t))
    /\ WF_vars(\E t \in 1..NumTasks : FailStep(t))
    /\ WF_vars(CheckOverflowStep)
    /\ WF_vars(SaveIndices)
    /\ WF_vars(PostExecute)


\* ================================================================== claims
\* the work items whose result has been merged
Merged == IF pc = "start" THEN {} ELSE DOMAIN results \ pending

\* the ProbabilityMaps obtained by merging the results of the work items
\* of M in ascending order of work item
RECURSIVE FoldCurves(_, _)
FoldCurves(n, M) ==
    IF n = 0 THEN zerodict
    ELSE LET a == FoldCurves(n - 1, M)
         IN  IF n \in M THEN MergeCurves(a, results[n].hcurves) ELSE a

\* C1: whatever the order in which agg_dicts merged the results, every
\* realization's ProbabilityMap equals, cell by cell, the map obtained by
\* merging the same results in ascending order of work item.
C1_OrderIndependent ==
    pc # "start" => acc = FoldCurves(Len(results), Merged)

\* C1 witness: the run is done after merging two results that write
\* different values to the same cells
C1_Witness ==
    /\ pc = "done"
    /\ \E t1, t2 \in DOMAIN results :
          /\ t1 < t2
          /\ \E k \in DOMAIN results[t1].hcurves \cap DOMAIN results[t2].hcurves :
                results[t1].hcurves[k] # results[t2].hcurves[k]

\* 1 - c = (1 - q) * (1 - p), on fractions
IsComplement(c, q, p) ==
    (c[2] - c[1]) * q[2] * p[2] = c[2] * (q[2] - q[1]) * (p[2] - p[1])

\* the cells written by the result of work item t hold the complement rule
\* applied to the value before the step (0 for a site not in the map)
CellsRule(t) ==
    \A k \in DOMAIN results[t].hcurves :
        \A j \in 1..Len(results[t].hcurves[k]) :
            LET r == k[1]
                sid == k[2]
                l == SliceStart(k[3]) + j - 1
                q == IF sid \in DOMAIN acc[r] THEN acc[r][sid][l] ELSE <<0, 1>>
            IN  /\ sid \in DOMAIN acc'[r]
                /\ IsComplement(acc'[r][sid][l], q, results[t].hcurves[k][j])

\* the merged results that contribute to realization 0, site 7, level 0
Scenario1Tasks == { t \in Merged : <<0, 7, "PGA">> \in DOMAIN results[t].hcurves }

Scenario1 ==
    (/\ Cardinality(Scenario1Tasks) = 2
     /\ \A t \in Scenario1Tasks : results[t].hcurves[<<0, 7, "PGA">>][1] = <<1, 2>>)
    => acc[0][7][0] = <<3, 4>>

\* C2: a successful merge sets every cell (r, s, l) it has a contribution p
\* for to 1 - (1 - q) * (1 - p), q being the cell before the merge and 0 for
\* a site not yet in the map; after two contributions of 0.5 to realization
\* 0, site 7, level 0 the cell holds 0.75.
C2_ComplementRule ==
    [][\A t \in 1..NumTasks :
          (AggDicts(t) /\ t \notin pending') => (CellsRule(t) /\ Scenario1')]_vars

\* C2 witness: two contributions of 0.5 to realization 0, site 7, level 0
\* have been merged, the first into a map without site 7
C2_Witness ==
    /\ Cardinality(Scenario1Tasks) = 2
    /\ \A t \in Scenario1Tasks : results[t].hcurves[<<0, 7, "PGA">>][1] = <<1, 2>>
    /\ pending = {}

\* C3: every cell of every realization's ProbabilityMap is a probability,
\* 0 <= cell <= 1.
C3_CellsInUnitInterval ==
    \A r \in DOMAIN acc : \A sid \in DOMAIN acc[r] : \A l \in DOMAIN acc[r][sid] :
        LET c == acc[r][sid][l]
        IN  c[2] > 0 /\ 0 <= c[1] /\ c[1] <= c[2]

\* C3 witness: after three merges a map holds a cell equal to 1, a cell
\* equal to 0 and a cell strictly between them
C3_Witness ==
    /\ Cardinality(Merged) = 3
    /\ \E r \in DOMAIN acc : \E sid \in DOMAIN acc[r] :
          /\ \E l \in DOMAIN acc[r][sid] : acc[r][sid][l] = <<1, 1>>
          /\ \E l \in DOMAIN acc[r][sid] : acc[r][sid][l] = <<0, 1>>
    /\ \E r \in DOMAIN acc : \E sid \in DOMAIN acc[r] :
          \E l \in DOMAIN acc[r][sid] : acc[r][sid][l] = <<7, 8>>

\* the number of rows of a GMF table kept as runs
RECURSIVE TableRows(_)
TableRows(tbl) ==
    IF tbl = <<>> THEN <<0, 0>> ELSE BigAdd(Head(tbl).n, TableRows(Tail(tbl)))

\* the list self.indices holds under key, empty when the key is missing
ListAt(key) == IF key \in DOMAIN indices THEN indices[key] ELSE <<>>
ListAtNext(key) == IF key \in DOMAIN indices' THEN indices'[key] ELSE <<>>

\* the rows work item t appended in this step
AppendedRows == SubSeq(gmf_data', Len(gmf_data) + 1, Len(gmf_data'))

\* C4: when a result with GMF rows is merged, every range it reports is
\* appended to its site's lists shifted by the write pointer as it was
\* before the step, and the pointer grows by the number of rows appended.
C4_ShiftByPointerBefore ==
    [][\A t \in 1..NumTasks :
          (AggDicts(t) /\ results[t].gmdata) =>
             /\ offset' = BigAdd(offset, TableRows(AppendedRows))
             /\ \A i \in 1..Len(results[t].indices) :
                   LET h == results[t].indices[i]
                   IN  /\ ListAtNext(<<h.sid, 0>>)
                            = Append(ListAt(<<h.sid, 0>>), BigAdd(h.start, offset))
                       /\ ListAtNext(<<h.sid, 1>>)
                            = Append(ListAt(<<h.sid, 1>>), BigAdd(h.stop, offset))]_vars

\* C4 witness: a result with rows was merged when the pointer was not 0, so
\* that a recorded start differs from the start the result reported
C4_Witness ==
    /\ pc = "reduce"
    /\ \E sid \in 0..(NumSites - 1) :
          /\ <<sid, 0>> \in DOMAIN indices
          /\ Len(indices[<<sid, 0>>]) = 2
          /\ indices[<<sid, 0>>][2] = <<0, 2>>

\* the half-open ranges recorded for site sid, in the order of recording
Ranges(sid) ==
    [i \in 1..Len(ListAt(<<sid, 0>>)) |->
        <<ListAt(<<sid, 0>>)[i], ListAt(<<sid, 1>>)[i]>>]

\* the half-open ranges of table positions that hold rows of site sid
RECURSIVE RunsOf(_, _, _)
RunsOf(tbl, sid, pos) ==
    IF tbl = <<>> THEN <<>>
    ELSE LET end == BigAdd(pos, Head(tbl).n)
         IN  (IF Head(tbl).sid = sid THEN <<(<<pos, end>>)>> ELSE <<>>)
             \o RunsOf(Tail(tbl), sid, end)

\* C5: for every site the recorded ranges lie within [0, write pointer],
\* are pairwise disjoint, and are exactly the ranges of table positions
\* that hold rows of that site.
C5_RangesBoundRows ==
    \A sid \in 0..(NumSites - 1) :
        LET rs == Ranges(sid)
        IN  /\ Len(ListAt(<<sid, 0>>)) = Len(ListAt(<<sid, 1>>))
            /\ \A i \in 1..Len(rs) :
                  /\ BigLeq(<<0, 0>>, rs[i][1])
                  /\ BigLt(rs[i][1], rs[i][2])
                  /\ BigLeq(rs[i][2], offset)
            /\ \A i, j \in 1..Len(rs) :
                  i < j => (BigLeq(rs[i][2], rs[j][1]) \/ BigLeq(rs[j][2], rs[i][1]))
            /\ rs = RunsOf(gmf_data, sid, <<0, 0>>)

\* C5 witness: a site has two recorded ranges with rows of another site
\* between them
C5_Witness ==
    \E sid \in 0..(NumSites - 1) :
        /\ Len(Ranges(sid)) = 2
        /\ BigLt(Ranges(sid)[1][2], Ranges(sid)[2][1])


\* the run was ended by the capacity error of agg_dicts
CapacityError == pc = "failed" /\ error = "RuntimeError: too many gmf rows"

\* C6: a merge fails with the capacity error if and only if its rows made
\* the write pointer exceed 2^32; a pointer of at most 2^32 is accepted.
C6_FailsIffPointerExceeds ==
    CapacityError <=> BigLt(<<2^16, 0>>, offset)

\* C7: the GMF table never holds more than 2^32 rows, also in the state in
\* which the capacity error is raised.
C7_TableWithinCeiling ==
    BigLeq(TableRows(gmf_data), <<2^16, 0>>)

\* C8: check_overflow accepts 2^16 sites, 2^32 events and 2^8 intensity
\* measure types, raises when one of the counts is one more than that, and
\* takes a missing events table for 0 events.
C8_OverflowBoundaries ==
    ovf.out \in {"ok", "ValueError"} =>
       LET nevents == IF ovf.exists THEN ovf.events ELSE <<0, 0>>
           within == /\ ovf.sites <= 65536
                     /\ nevents[1] < 65536 \/ nevents = <<65536, 0>>
                     /\ ovf.imts <= 256
       IN  /\ within => ovf.out = "ok"
           /\ (ovf.sites = 65537 \/ nevents = <<65536, 1>> \/ ovf.imts = 257)
                 => ovf.out = "ValueError"
           /\ ovf.out = "ValueError" => ~within

\* C8 witness: the check has accepted exactly 2^16 sites, 2^32 events and
\* 2^8 intensity measure types
C8_Witness ==
    /\ ovf.out = "ok"
    /\ ovf.sites = 65536
    /\ ovf.exists /\ ovf.events = <<65536, 0>>
    /\ ovf.imts = 256

\* C9: a run with zero events overall never completes successfully, in a
\* fresh computation and in a reuse of persisted ruptures alike.
C9_ZeroEventsIsFatal ==
    pc = "done" => (events.exists /\ Len(events.rows) > 0)

\* the sites that have rows in the GMF table
SitesWithRows == { gmf_data[i].sid : i \in 1..Len(gmf_data) }

\* C10: once execute has ended without error after GMF rows were produced,
\* the index table has one entry for every site of the site collection; a
\* site with rows holds the starts and stops accumulated for it, a site
\* without rows holds empty lists.
C10_DenseIndex ==
    /\ (pc \in {"post_execute", "done"} /\ gmf_data # <<>>) => dset.created
    /\ dset.created =>
          /\ gmf_data # <<>>
          /\ DOMAIN dset.rows = 0..(sitecol - 1)
          /\ \A sid \in 0..(sitecol - 1) :
                IF sid \in SitesWithRows
                THEN /\ dset.rows[sid] = <<ListAt(<<sid, 0>>), ListAt(<<sid, 1>>)>>
                     /\ Len(dset.rows[sid][1]) > 0
                ELSE dset.rows[sid] = << <<>>, <<>> >>

\* C10 witness: the index table was written with two ranges for one site
\* and none for another
C10_Witness ==
    /\ dset.created
    /\ \E sid \in DOMAIN dset.rows : Len(dset.rows[sid][1]) = 2
    /\ \E sid \in DOMAIN dset.rows : dset.rows[sid] = << <<>>, <<>> >>

\* some event of the table has been given a year
YearsSet == \E i \in 1..Len(events.rows) : events.rows[i].year # 0

\* the capacity checks pass on the current counts
ChecksPass ==
    ~check_overflow(sitecol, events.exists, BigOfInt(Len(events.rows)), Len(imtls))

\* C11: the capacity checks run only when every result has been merged; the
\* index table exists only when the checks have passed; years are set only
\* when the checks have passed and the index table, if there are ranges to
\* save, has been written; after a failure of the reduction or of the
\* checks there is no index table and no year, and after the failure of
\* the index step there is no year.
C11_PhaseOrder ==
    /\ pc \in {"save_indices", "post_execute", "done"} => pending = {}
    /\ error = "ValueError: overflow" => (pending = {} /\ ~ChecksPass)
    /\ dset.created => (pending = {} /\ ChecksPass)
    /\ YearsSet =>
          /\ pending = {} /\ ChecksPass
          /\ DOMAIN indices # {} => dset.created
          /\ pc = "done"
    /\ error \in {"RuntimeError: too many gmf rows", "ValueError: overflow"}
          => (~dset.created /\ ~YearsSet)
    /\ error = "RuntimeError: no GMFs" => (~dset.created /\ ~YearsSet)

\* C11 witness: a fresh run has merged three results, passed the checks,
\* written the index table and set the years
C11_Witness ==
    /\ pc = "done"
    /\ Cardinality(Merged) = 3
    /\ dset.created
    /\ YearsSet

\* the event-ids of a list of event records
EidsOf(rows) == { rows[i].eid : i \in 1..Len(rows) }

\* C12 as stated: merging a result that carries the events bundle of
\* compute_gmfs appends the records of the bundle to the events table.
C12_BundleAppended ==
    [][\A t \in 1..NumTasks :
          (AggDicts(t) /\ "events" \in results[t].attrs) =>
             events'.rows = events.rows \o Bundle(t).events]_vars

\* C12, amended: merging a result that carries the events bundle of
\* compute_gmfs leaves the events table as it is; the events of the bundle
\* are in the table already, saved before dispatch or by the parent run.
C12_BundleLeftAlone ==
    [][\A t \in 1..NumTasks :
          (AggDicts(t) /\ "events" \in results[t].attrs) =>
             /\ events' = events
             /\ Bundle(t).events # <<>>
             /\ EidsOf(Bundle(t).events) \subseteq EidsOf(events.rows)]_vars

\* C12 witness: every result carried an events bundle, all three were
\* merged, and the table holds the three events saved before dispatch
C12_Witness ==
    /\ pc = "reduce"
    /\ Cardinality(Merged) = 3
    /\ \A t \in Merged : "events" \in results[t].attrs
    /\ Len(events.rows) = 3

\* C13: a call of save_ruptures with a non-empty rupture list, when ruptures
\* are being saved, hands the serializer exactly these ruptures and, as base
\* offset, the number of rows the events table held before the call,
\* whatever was appended before; a call with an empty list changes neither
\* the events table nor the serializer.
C13_BaseOffsetIsRowsBefore ==
    [][\A ruptures \in RuptureLists(Len(events.rows)) :
          SaveRuptures(ruptures) =>
             IF Len(ruptures) = 0
             THEN events' = events /\ rupser' = rupser
             ELSE /\ Len(events'.rows) = Len(events.rows) + Len(get_events(ruptures))
                  /\ IF oq.save_ruptures
                     THEN rupser' = Append(rupser, [ruptures |-> ruptures,
                                                    eidx |-> Len(events.rows)])
                     ELSE rupser' = rupser]_vars

\* C13 witness: the serializer was called twice, the second time with a base
\* offset that is neither 0 nor the length of the table after the append
C13_Witness ==
    /\ Len(rupser) = 2
    /\ rupser[2].eidx > 0
    /\ rupser[2].eidx < Len(events.rows)

\* C14: no two rows of the events table hold the same event-id, after the
\* saving before dispatch and after every merge of a result.
C14_UniqueEids ==
    \A i, j \in 1..Len(events.rows) :
        i # j => events.rows[i].eid # events.rows[j].eid

\* C14 witness: a fresh run that saved three events before dispatch has
\* merged the three results that carry them and is done
C14_Witness ==
    /\ pc = "done"
    /\ oq.hazard_calculation_id = "None"
    /\ Cardinality(Merged) = 3
    /\ Cardinality(EidsOf(events.rows)) = 3

\* an event record without its year
Unyeared(row) == [row EXCEPT !.year = 0]

\* C15: year assignment leaves the number of rows of the events table, their
\* order and, in every row, the event-id, rupture serial, group id, SES id
\* and sample index as they were; only the year field changes.
C15_OnlyYearChanges ==
    [][SetYears =>
          /\ Len(events'.rows) = Len(events.rows)
          /\ \A i \in 1..Len(events.rows) :
                /\ Unyeared(events'.rows[i]) = Unyeared(events.rows[i])
                /\ events'.rows[i].year # events.rows[i].year
          /\ events'.exists = events.exists]_vars

\* C15 witness: years were set on a table of three events that is not in
\* order of event-id
C15_Witness ==
    /\ pc \in {"first_done", "done"}
    /\ Len(events.rows) = 3
    /\ events.rows[1].eid > events.rows[2].eid
    /\ \A i \in 1..3 : events.rows[i].year > 0

\* C16: after year assignment every event's year is an integer from 1 to
\* the investigation time, for every seed and every table of events.
C16_YearsInRange ==
    pc \in {"first_done", "done"} =>
       \A i \in 1..Len(events.rows) :
          /\ events.rows[i].year \in Int
          /\ 1 <= events.rows[i].year
          /\ events.rows[i].year <= oq.investigation_time

\* C16 witness: with an investigation time of 50, years above 1 and
\* different from each other were assigned
C16_Witness ==
    /\ pc = "done"
    /\ oq.investigation_time = 50
    /\ Len(events.rows) = 3
    /\ events.rows[1].year > 1
    /\ events.rows[1].year # events.rows[2].year

\* C17: two year assignments with the same seed and investigation time, on
\* tables that hold the same event-ids in whatever order, give every event
\* the same year.
C17_SameSeedSameYears ==
    pc = "done" =>
       \A i \in 1..Len(events.rows) : \A j \in 1..Len(twin.rows) :
          events.rows[i].eid = twin.rows[j].eid
             => events.rows[i].year = twin.rows[j].year

\* C17 witness: both assignments are done on tables that hold the same
\* three events in different orders, and the events have different years
C17_Witness ==
    /\ pc = "done"
    /\ Len(events.rows) = 3
    /\ events.rows[1].eid # twin.rows[1].eid
    /\ events.rows[1].year # events.rows[2].year
    /\ EidsOf(events.rows) = EidsOf(twin.rows)

\* the source groups of the composite source model
SrcGroups ==
    UNION { { csm[i].src_groups[j] : j \in 1..Len(csm[i].src_groups) } :
              i \in 1..Len(csm) }

\* the blocks yielded so far for group gid, in order of yield
BlocksOf(gid) == SelectSeq(blocks, LAMBDA b : b.grp_id = gid)

\* the sources of a sequence of blocks, block after block
RECURSIVE Flatten(_)
Flatten(bs) == IF bs = <<>> THEN <<>> ELSE Head(bs).sources \o Flatten(Tail(bs))

\* the sources of a group that have at least one rupture, in order
WithRuptures(sg) == SelectSeq(sg.sources, LAMBDA src : src.n >= 1)

IsPrefix(s, t) == Len(s) <= Len(t) /\ s = SubSeq(t, 1, Len(s))

\* the rupture counts of the sources of a block
Weights(b) == [i \in 1..Len(b.sources) |-> b.sources[i].n]

\* C18: among the blocks of groups that are not mutex, a block with more
\* than one source weighs at most maxweight, a source heavier than maxweight
\* is alone in its block, a block is closed only when the next source of
\* the group would take it over maxweight, and the blocks of a group hold
\* its sources in order; weights [50,50,50,50,50] with maxweight 120 give
\* the blocks [[50,50],[50,50],[50]].
C18_WeightBounded ==
    /\ \A k \in 1..Len(blocks) :
          ~blocks[k].mutex =>
             LET b == blocks[k]
             IN  /\ Len(b.sources) >= 1
                 /\ Len(b.sources) > 1 => TotalWeight(b.sources) <= maxweight
                 /\ \A i \in 1..Len(b.sources) :
                       b.sources[i].n > maxweight => Len(b.sources) = 1
                 /\ (k < Len(blocks) /\ blocks[k + 1].grp_id = b.grp_id)
                       => TotalWeight(b.sources) + blocks[k + 1].sources[1].n
                            > maxweight
    /\ \A sg \in SrcGroups :
          sg.src_interdep # "mutex"
             => IsPrefix(Flatten(BlocksOf(sg.id)), WithRuptures(sg))
    /\ (/\ pc = "gen_done"
        /\ maxweight = 120
        /\ csm[1].src_groups[1].src_interdep # "mutex"
        /\ Len(csm[1].src_groups[1].sources) = 5
        /\ \A i \in 1..5 : csm[1].src_groups[1].sources[i].n = 50)
       => [k \in 1..Len(BlocksOf(0)) |-> Weights(BlocksOf(0)[k])]
            = << <<50, 50>>, <<50, 50>>, <<50>> >>

\* C18 witness: the five sources of weight 50 were split with maxweight 120
C18_Witness ==
    /\ pc = "gen_done"
    /\ maxweight = 120
    /\ csm[1].src_groups[1].src_interdep = "indep"
    /\ Len(BlocksOf(0)) = 3
    /\ Weights(BlocksOf(0)[1]) = <<50, 50>>

\* C19: when gen_args has ended, the blocks of every group hold, in order,
\* exactly the sources of the group that have ruptures, each once and in one
\* block; no block is empty, a source without ruptures is in no block and a
\* group without rupture-producing sources has no block.
C19_BlocksPartitionSources ==
    pc = "gen_done" =>
       /\ \A sg \in SrcGroups :
             /\ Flatten(BlocksOf(sg.id)) = WithRuptures(sg)
             /\ WithRuptures(sg) = <<>> => BlocksOf(sg.id) = <<>>
       /\ \A k \in 1..Len(blocks) :
             /\ blocks[k].sources # <<>>
             /\ \A i \in 1..Len(blocks[k].sources) : blocks[k].sources[i].n >= 1
       /\ \A k1, k2 \in 1..Len(blocks) : \A i1 \in 1..Len(blocks[k1].sources) :
             \A i2 \in 1..Len(blocks[k2].sources) :
                blocks[k1].sources[i1].id = blocks[k2].sources[i2].id
                   => (k1 = k2 /\ i1 = i2)

\* C19 witness: a group whose second source has no ruptures was split in two
\* blocks, and another group, without rupture-producing sources, has none
C19_Witness ==
    /\ pc = "gen_done"
    /\ Len(csm[1].src_groups[1].sources) = 3
    /\ csm[1].src_groups[1].sources[2].n = 0
    /\ Len(BlocksOf(0)) = 2
    /\ \E sg \in SrcGroups : sg.id = 1 /\ sg.sources # <<>> /\ BlocksOf(1) = <<>>

\* C20 as stated: every mutex group yields exactly one block, which holds
\* all its rupture-producing sources, whatever maxweight and whatever the
\* number and weights of its sources.
C20_MutexOneBlock ==
    pc = "gen_done" =>
       \A sg \in SrcGroups :
          sg.src_interdep = "mutex" =>
             /\ Len(BlocksOf(sg.id)) = 1
             /\ BlocksOf(sg.id)[1].sources = WithRuptures(sg)

\* C20, amended: a mutex group with at least one rupture-producing source
\* yields exactly one block, which holds all its rupture-producing sources,
\* whatever maxweight; a mutex group without such a source yields no block.
C20_MutexOneBlockIfAnySource ==
    pc = "gen_done" =>
       \A sg \in SrcGroups :
          sg.src_interdep = "mutex" =>
             IF WithRuptures(sg) = <<>>
             THEN BlocksOf(sg.id) = <<>>
             ELSE /\ Len(BlocksOf(sg.id)) = 1
                  /\ BlocksOf(sg.id)[1].sources = WithRuptures(sg)

\* C20 witness: a mutex group of three rupture-producing sources that weigh
\* more than maxweight together was yielded as one block
C20_Witness ==
    /\ pc = "gen_done"
    /\ csm[1].src_groups[1].src_interdep = "mutex"
    /\ Len(WithRuptures(csm[1].src_groups[1])) = 3
    /\ TotalWeight(csm[1].src_groups[1].sources) > maxweight
    /\ Len(BlocksOf(0)) = 1
    /\ Len(BlocksOf(0)[1].sources) = 3

\* the slices of the getters yielded so far, each once, in order of yield
RECURSIVE SlicesOf(_)
SlicesOf(items) ==
    IF items = <<>> THEN <<>>
    ELSE LET rest == SlicesOf(Tail(items))
         IN  IF rest # <<>> /\ Head(rest) = Head(items).slc THEN rest
             ELSE <<Head(items).slc>> \o rest

\* C21: when gen_args has ended in a reuse run over U persisted ruptures,
\* the slices are contiguous, pairwise disjoint, cover [0, U) exactly and
\* differ in length by at most one; the getters are the (slice, group) pairs,
\* each once, slice after slice and group after group within a slice; every
\* rupture index is produced by exactly one getter, a getter of its group.
C21_SlicesPartitionRuptures ==
    pc = "gen_done" =>
       LET U == Len(parent.ruptures)
           G == Len(parent.grp_ids)
           slcs == SlicesOf(blocks)
           n == Len(slcs)
       IN  /\ U > 0 => (n > 0 /\ slcs[1].start = 0 /\ slcs[n].stop = U)
           /\ U = 0 => n = 0
           /\ \A s \in 1..n : slcs[s].start < slcs[s].stop
           /\ \A s \in 1..(n - 1) : slcs[s].stop = slcs[s + 1].start
           /\ \A s, t \in 1..n :
                 (slcs[s].stop - slcs[s].start) - (slcs[t].stop - slcs[t].start) <= 1
           /\ Len(blocks) = n * G
           /\ \A k \in 1..Len(blocks) :
                 blocks[k] = [slc |-> slcs[((k - 1) \div G) + 1],
                              grp_id |-> parent.grp_ids[((k - 1) % G) + 1]]
           /\ \A i \in 0..(U - 1) :
                 /\ Cardinality({ k \in 1..Len(blocks) :
                                    i \in getter_ruptures(blocks[k]) }) = 1
                 /\ \A k \in 1..Len(blocks) :
                       i \in getter_ruptures(blocks[k])
                          => blocks[k].grp_id = parent.ruptures[i + 1]

\* C21 witness: five ruptures of two groups were cut in three slices of
\* lengths 1, 2 and 2 and six getters were yielded
C21_Witness ==
    /\ pc = "gen_done"
    /\ Len(parent.ruptures) = 5
    /\ parent.ruptures[1] # parent.ruptures[2]
    /\ Len(blocks) = 6
    /\ blocks[1].slc.stop - blocks[1].slc.start = 1
    /\ blocks[6].slc.stop - blocks[6].slc.start = 2

\* the tasks merged so far, in the order of their merges
RECURSIVE MergedOrder(_)
MergedOrder(rows) ==
    IF rows = <<>> THEN <<>>
    ELSE LET rest == MergedOrder(Tail(rows))
         IN  IF rest # <<>> /\ Head(rest) = Head(rows).task THEN rest
             ELSE <<Head(rows).task>> \o rest

\* C22: a failure of any worker task aborts the run. Once the exception of
\* a task has reached the reduction the run is failed and stays failed: the
\* failed task is still unmerged and was submitted once, the overflow check
\* and the index table were never made, no year was assigned, and no later
\* step submits a task, merges a result or changes a table.
C22_TaskFailureAborts ==
    /\ [](error = "task exception" =>
            /\ pc = "failed"
            /\ \E t \in pending : t \in DOMAIN results /\ results[t] = TaskFailed
            /\ \A i, j \in 1..Len(blocks) : blocks[i] = blocks[j] => i = j
            /\ dset = NoDset
            /\ \A i \in 1..Len(events.rows) : events.rows[i].year = 0)
    /\ [][error = "task exception" =>
            UNCHANGED <<pc, error, blocks, gen, pending, acc, offset, indices,
                        gmf_data, events, dset>>]_vars
    /\ [][\A t \in DOMAIN results :
            results[t] = TaskFailed =>
               /\ t \in pending'
               /\ pc' \notin {"save_indices", "post_execute", "done"}]_vars

\* C22 witness: the second of three tasks was merged, then the exception of
\* the first one ended the run while the third had returned a result
C22_Witness ==
    /\ error = "task exception"
    /\ Len(blocks) = 3
    /\ MergedOrder(gmf_data) = <<2>>
    /\ DOMAIN results = {1, 2, 3}
    /\ results[1] = TaskFailed
    /\ results[3] # TaskFailed

\* C23: every work item is submitted before the first result is merged, and
\* the results are merged one at a time, in the order in which the
\* reduction takes them, whatever that order is: while a block is still to
\* be submitted nothing has been merged; the merged tasks are distinct
\* tasks that had returned; a step merges at most one result.
C23_SubmitAllThenMergeOneByOne ==
    /\ [](LET merged == MergedOrder(gmf_data)
          IN  /\ (gen.queue # <<>> \/ pc = "submit") =>
                    (merged = <<>> /\ pending = 1..Len(blocks))
              /\ \A i, j \in 1..Len(merged) : merged[i] = merged[j] => i = j
              /\ \A i \in 1..Len(merged) :
                    /\ merged[i] \in (1..Len(blocks)) \ pending
                    /\ merged[i] \in DOMAIN results
              /\ Len(merged) + Cardinality(pending) = Len(blocks))
    /\ [][/\ Len(MergedOrder(gmf_data')) <= Len(MergedOrder(gmf_data)) + 1
          /\ Cardinality(pending \ pending') <= 1]_vars

\* C23 witness: three tasks were submitted and then merged in the order
\* 3, 1, 2
C23_Witness ==
    /\ Len(blocks) = 3
    /\ MergedOrder(gmf_data) = <<3, 1, 2>>
    /\ pending = {}

\* the tables and accumulators that agg_dicts writes
Aggregated == <<events, gmf_data, offset, indices, acc>>

\* C24: the events table, the GMF table, its write pointer, the per-site
\* index and the ProbabilityMaps are changed by aggregator steps only: a
\* step in which a worker returns leaves them all unchanged, and a step of
\* the reduction that changes any of them is the merge of exactly one
\* returned result (or the one that fails on the row limit), so that no two
\* merges overlap.
C24_OnlyAggregatorWrites ==
    [][/\ results' # results => UNCHANGED <<Aggregated, dset>>
       /\ (pc \in {"submit", "reduce"} /\ Aggregated' # Aggregated) =>
             /\ pc = "reduce"
             /\ results' = results
             /\ \/ pc' = "failed"
                \/ \E t \in pending \cap DOMAIN results : pending' = pending \ {t}]_vars

\* C24 witness: the result of task 2 has been merged while task 1 has
\* returned and waits and task 3 is still running
C24_Witness ==
    /\ Len(blocks) = 3
    /\ MergedOrder(gmf_data) = <<2>>
    /\ DOMAIN results = {1, 2}
    /\ results[1] # TaskFailed
    /\ 7 \in DOMAIN acc[0]
    /\ pc = "reduce"

\* the sum of the values of function f over the set S of its arguments
RECURSIVE SumF(_, _)
SumF(f, S) ==
    IF S = {} THEN 0
    ELSE LET x == CHOOSE x \in S : TRUE IN f[x] + SumF(f, S \ {x})

\* the GMF rows of task t, and the pairs (row, asset) of a GMF row of event
\* eid and an asset on the site of that row
ShareOf(t) == ReadSlice(dmg.gmf, dmg.shares[t])
Touched(t, eid) ==
    { p \in (1..Len(ShareOf(t))) \X (1..Len(Assets)) :
        /\ ShareOf(t)[p[1]].eid = eid
        /\ ShareOf(t)[p[1]].sid = Assets[p[2]].site_id }

\* number of assets times the fraction in damage state d, for the pairs P
Scaled(t, P, lti, d) ==
    SumF([p \in P |-> Assets[p[2]].number
                      * Fraction(Assets[p[2]], ShareOf(t)[p[1]].gmv, lti)[d]], P)

\* the results of the tasks that have returned one
Returned == { t \in DOMAIN dmg.results : ~dmg.results[t].missing }

\* C25: within one damage task, for every event, loss type and damage
\* state, the total bucket (eid, K) holds the sum, over the assets on the
\* sites the event touches, of the number of assets times the fraction of
\* the evaluator (in tenths: fractions 1, 9 and 2, 8 of 10 and 5 assets
\* give 20 and 130).
C25_TotalIsSumOfScaledFractions ==
    \A t \in Returned :
       LET dddict == dmg.results[t].dddict
           eids == { ShareOf(t)[r].eid : r \in 1..Len(ShareOf(t)) }
       IN  /\ { k[1] : k \in { j \in DOMAIN dddict : j[2] = dmg.K } } = eids
           /\ \A eid \in eids, lti \in 0..(LT - 1), d \in 0..(D - 1) :
                 dddict[<<eid, dmg.K>>][lti][d] = Scaled(t, Touched(t, eid), lti, d)

\* C25 witness: a task whose only GMF row is event 1 on site 0, where 10
\* and 5 assets have fractions 0.1, 0.9 and 0.2, 0.8: the totals are 2.0
\* and 13.0
C25_Witness ==
    \E t \in Returned :
       /\ Len(ShareOf(t)) = 1
       /\ ShareOf(t)[1].sid = 0 /\ ShareOf(t)[1].eid = <<0, 1>>
       /\ Fraction(Assets[1], 1, 0) = (0 :> 1) @@ (1 :> 9)
       /\ Fraction(Assets[2], 1, 0) = (0 :> 2) @@ (1 :> 8)
       /\ dmg.results[t].dddict[<<<<0, 1>>, dmg.K>>][0][0] = 20
       /\ dmg.results[t].dddict[<<<<0, 1>>, dmg.K>>][0][1] = 130

\* the pairs of Touched(t, eid) whose asset has aggregation key kid
TouchedOf(t, eid, kid) ==
    { p \in Touched(t, eid) : Assets[p[2]].kid = kid }

\* C26: the damage of every asset is always added to the total bucket of
\* its event; it is added to the bucket of the asset's own aggregation key
\* if and only if K > 0. With K > 0 the buckets of an event are the total
\* and the keys of the assets it touches, each holding the damage of its
\* assets; with K = 0 the total bucket is the only one, it holds the damage
\* of every asset once, and every row of the frame has agg_id = K.
C26_TotalAlwaysKeyIffBreakdown ==
    \A t \in Returned :
       LET dddict == dmg.results[t].dddict
           df == dmg.results[t].df
           eids == { ShareOf(t)[r].eid : r \in 1..Len(ShareOf(t)) }
       IN  /\ \A eid \in eids, lti \in 0..(LT - 1), d \in 0..(D - 1) :
                 dddict[<<eid, dmg.K>>][lti][d] = Scaled(t, Touched(t, eid), lti, d)
           /\ dmg.K > 0 =>
                 /\ DOMAIN dddict =
                       { <<eid, dmg.K>> : eid \in eids }
                       \cup { <<ShareOf(t)[p[1]].eid, Assets[p[2]].kid>> :
                                p \in UNION { Touched(t, eid) : eid \in eids } }
                 /\ \A k \in DOMAIN dddict, lti \in 0..(LT - 1), d \in 0..(D - 1) :
                       k[2] # dmg.K =>
                          dddict[k][lti][d]
                             = Scaled(t, TouchedOf(t, k[1], k[2]), lti, d)
           /\ dmg.K = 0 =>
                 /\ DOMAIN dddict = { <<eid, 0>> : eid \in eids }
                 /\ \A r \in 1..Len(df.agg_id) : df.agg_id[r] = dmg.K

\* C26 witness: the same GMF rows, touching assets of both aggregation
\* keys, were evaluated with K = 2 in this run: the task filled the buckets
\* 0, 1 and the total 2 of event 1
C26_Witness ==
    \E t \in Returned :
       /\ dmg.K = 2
       /\ {<<<<0, 1>>, 0>>, <<<<0, 1>>, 1>>, <<<<0, 1>>, 2>>}
             \subseteq DOMAIN dmg.results[t].dddict
       /\ dmg.results[t].dddict[<<<<0, 1>>, 0>>][0][1] = 90


\* the events of the GMF rows of task t, and the keys of its accumulator:
\* the total of each event and, with K > 0, the keys of the assets touched
EventsOf(t) == { ShareOf(t)[r].eid : r \in 1..Len(ShareOf(t)) }
KeysOf(t) ==
    { <<eid, dmg.K>> : eid \in EventsOf(t) }
    \cup (IF dmg.K > 0
          THEN { <<ShareOf(t)[p[1]].eid, Assets[p[2]].kid>> :
                   p \in UNION { Touched(t, eid) : eid \in EventsOf(t) } }
          ELSE {})

\* the rows of the per-event table as (event_id, agg_id, loss_id)
StoredKey(table, r) == <<table.event_id[r], table.agg_id[r], table.loss_id[r]>>

\* every result has been combined
AllCombined ==
    /\ dmg.shares # <<>>
    /\ Len(dmg.combined) = Len(dmg.shares)

\* the number of rows combined before the rows of the i-th combined task
RECURSIVE RowsBefore(_)
RowsBefore(i) ==
    IF i = 1 THEN 0
    ELSE RowsBefore(i - 1) + Len(dmg.results[dmg.combined[i - 1]].df.event_id)

RowsOfKey(k, li) ==
    { r \in 1..Len(dmg.table.agg_id) :
        dmg.table.agg_id[r] = k /\ dmg.table.loss_id[r] = li }

\* C28: the damage summary has one entry per distinct (agg_id, loss_id) of
\* the per-event table, and each of its columns is the sum of that column
\* over all the rows of the table with that key, each row once; this for
\* every number of slices and every order of merging the partial sums.
C28_SummaryIsSumByKey ==
    pc = "done" =>
       LET sm == dmg.summary
           n == Len(sm.agg_id)
       IN  /\ { <<sm.agg_id[i], sm.loss_id[i]>> : i \in 1..n }
                 = { <<dmg.table.agg_id[r], dmg.table.loss_id[r]>> :
                       r \in 1..Len(dmg.table.agg_id) }
           /\ \A i, j \in 1..n :
                 (sm.agg_id[i] = sm.agg_id[j] /\ sm.loss_id[i] = sm.loss_id[j])
                    => i = j
           /\ \A i \in 1..n, c \in 1..Len(dmg_csq) :
                 sm[dmg_csq[c]][i]
                    = SumF([r \in RowsOfKey(sm.agg_id[i], sm.loss_id[i]) |->
                               dmg.table[dmg_csq[c]][r]],
                           RowsOfKey(sm.agg_id[i], sm.loss_id[i]))

\* C28 witness: a table of at least six rows was cut in three slices, the
\* rows of the first entry of the summary lie in more than one slice, and
\* the entries are not in key order, as a merge out of slice order leaves
\* them
C28_Witness ==
    /\ pc = "done"
    /\ dmg.ct = 3
    /\ Len(dmg.table.agg_id) >= 6
    /\ Cardinality(RowsOfKey(dmg.summary.agg_id[1], dmg.summary.loss_id[1])) >= 2
    /\ \E i \in 1..(Len(dmg.summary.agg_id) - 1) :
          dmg.summary.agg_id[i] > dmg.summary.agg_id[i + 1]

\* C29: when the result handed to combine is missing, combine raises
\* MemoryError and leaves every column of the per-event table as it was:
\* a missing result is never among the combined ones, the step that raises
\* changes no column, and after it the run is failed, no column changes
\* and no summary is made; a run with a missing result never ends well.
C29_MissingResultRaises ==
    /\ [](/\ \A i \in 1..Len(dmg.combined) : ~dmg.results[dmg.combined[i]].missing
          /\ error = "MemoryError" =>
                /\ pc = "failed"
                /\ dmg.summary = <<>>
                /\ \E t \in DOMAIN dmg.results : dmg.results[t].missing)
    /\ [][(error' = "MemoryError" \/ error = "MemoryError")
             => (dmg'.table = dmg.table /\ dmg'.combined = dmg.combined)]_vars
    /\ [][(\E t \in DOMAIN dmg.results : dmg.results[t].missing)
             => pc' # "done"]_vars

\* C29 witness: one result had been combined when a missing one was handed
\* to combine
C29_Witness ==
    /\ error = "MemoryError"
    /\ Len(dmg.combined) = 1
    /\ Len(dmg.table.event_id) > 0

\* C30: narrowing keeps the identifiers: every row of the frame a task
\* returns holds the event id, the aggregation id (the total K included)
\* and the loss type of its accumulator key as they were before narrowing.
C30_NarrowingKeepsIds ==
    \A t \in Returned :
       LET keys == SortedKeys(DOMAIN dmg.results[t].dddict)
           df == dmg.results[t].df
       IN  \A k \in 1..Len(keys), lti \in 0..(LT - 1) :
              /\ df.event_id[(k - 1) * LT + lti + 1] = keys[k][1]
              /\ df.agg_id[(k - 1) * LT + lti + 1] = keys[k][2]
              /\ df.loss_id[(k - 1) * LT + lti + 1] = lti

\* the sample multiplicity of the group (reuse run) or of the source model
\* (fresh run) of item k
OwnSamples(k) ==
    IF "slc" \in DOMAIN blocks[k] THEN samples_by_grp(blocks[k].grp_id)
    ELSE LET m == CHOOSE m \in 1..Len(csm) :
                     \E g \in 1..Len(csm[m].src_groups) :
                        csm[m].src_groups[g].id = blocks[k].grp_id
         IN  csm[m].samples

\* C31: every worker that made GMFs made them with the sample multiplicity
\* of the group (reuse run) or source model (fresh run) of its own item,
\* whatever was generated between the generation of the item and the moment
\* the worker took its arguments.
C31_WorkerSeesOwnSamples ==
    \A k \in DOMAIN results :
       \A g \in 1..Len(results[k].getter) :
          results[k].getter[g].samples = OwnSamples(k)

\* the number of ruptures item k materializes in its worker
NumRuptures(k) ==
    IF "slc" \in DOMAIN blocks[k] THEN Cardinality(getter_ruptures(blocks[k]))
    ELSE TotalWeight(blocks[k].sources)

\* the ruptures a bundle carries, over all its groups
BundleRuptures(b) ==
    { <<g, i>> \in (DOMAIN b.ruptures) \X (1..(MaxSources + 5)) :
         i <= Len(b.ruptures[g]) }

\* C32: a worker whose item materializes no ruptures returns a bundle with
\* no events, no ruptures and no GMF rows. Otherwise the bundle carries
\* exactly one of the two: one Event record per event and no ruptures when
\* ruptures are not being saved or the item is a getter of persisted
\* ruptures, else the ruptures of the block and no Event records.
C32_EventsOrRuptures ==
    \A k \in DOMAIN results :
       LET b == results[k]
       IN  IF NumRuptures(k) = 0
           THEN /\ "events" \notin b.attrs /\ b.events = <<>>
                /\ BundleRuptures(b) = {}
                /\ ~b.gmdata /\ b.gmfdata = <<>> /\ b.getter = <<>>
           ELSE IF ~oq.save_ruptures \/ "slc" \in DOMAIN blocks[k]
           THEN /\ "events" \in b.attrs
                /\ Len(b.events) = NumRuptures(k)
                /\ BundleRuptures(b) = {}
           ELSE /\ "events" \notin b.attrs /\ b.events = <<>>
                /\ Cardinality(BundleRuptures(b)) = NumRuptures(k)

\* C32 witness: with save_ruptures on, a reuse run has a bundle without
\* anything (its getter found no rupture of its group) and a bundle with
\* the Event record of a persisted rupture
C32_Witness ==
    /\ oq.save_ruptures
    /\ oq.hazard_calculation_id # "None"
    /\ \E k, j \in DOMAIN results :
          /\ NumRuptures(k) = 0 /\ results[k] = EmptyBundle
          /\ NumRuptures(j) = 1 /\ Len(results[j].events) = 1
             /\ results[j].gmfdata # <<>>

\* C38: every block generated in a fresh run holds sources of one source
\* group only, and the mapping sent with it is that of this group; so the
\* group id its worker takes from the first source is the group id of every
\* rupture of the block, also of those it returns for saving.
C38_BlockOfOneGroup ==
    /\ \A k \in 1..Len(blocks) :
          "sources" \in DOMAIN blocks[k] =>
             /\ blocks[k].sources # <<>>
             /\ \A i \in 1..Len(blocks[k].sources) :
                   /\ blocks[k].sources[i].src_group_id = blocks[k].grp_id
                   /\ \A j \in 1..weight(blocks[k].sources[i]) :
                         eb_ruptures(blocks[k].sources[i])[j].grp_id
                            = blocks[k].sources[1].src_group_id
    /\ \A k \in DOMAIN results :
          /\ \A g \in DOMAIN results[k].ruptures :
                /\ g = blocks[k].grp_id
                /\ \A i \in 1..Len(results[k].ruptures[g]) :
                      results[k].ruptures[g][i].grp_id = g
          /\ \A g \in 1..Len(results[k].getter) :
                results[k].getter[g].rlzs_by_gsim = blocks[k].grp_id

\* C38 witness: a fresh run with two groups has a block of two sources of
\* group 1 whose worker returned their three ruptures under group id 1,
\* and a block of group 0
C38_Witness ==
    /\ oq.hazard_calculation_id = "None"
    /\ \E k \in DOMAIN results :
          /\ Len(blocks[k].sources) = 2
          /\ DOMAIN results[k].ruptures = {1}
          /\ Len(results[k].ruptures[1]) = 3
    /\ \E k \in 1..Len(blocks) : blocks[k].grp_id = 0

\* C33: when ground-motion fields are requested in a run that is not a
\* UCERF run and, after all results are merged, no site has a recorded
\* range of GMF rows, the run ends with the "No GMFs were generated" error:
\* it never goes on past execute, or completes, with an empty GMF index, and
\* the error is raised in no other case.
C33_NoGmfsIsFatal ==
    /\ (/\ oq.ground_motion_fields
        /\ oq.calculation_mode # "ucerf_hazard"
        /\ pc \in {"post_execute", "done"})
          => /\ DOMAIN indices # {}
             /\ dset.created
             /\ \E sid \in 0..(sitecol - 1) : dset.rows[sid][1] # <<>>
    /\ error = "RuntimeError: no GMFs"
          => /\ pc = "failed"
             /\ pending = {}
             /\ oq.ground_motion_fields
             /\ DOMAIN indices = {}
             /\ ~dset.created

\* C33 witness: GMFs were requested, two results were merged, none of them
\* had a row, and the run has ended with the error
C33_Witness ==
    /\ pc = "failed"
    /\ error = "RuntimeError: no GMFs"
    /\ oq.ground_motion_fields
    /\ Len(results) >= 2
    /\ pending = {}
    /\ \A t \in 1..Len(results) : results[t].gmfdata = <<>>
    /\ gmf_data = <<>>

\* C34: in a reuse run (the ruptures and events of a parent calculation are
\* read back) no step of the run writes the events table: the years are
\* not assigned, and the table at the end of the run is the table the run
\* started with.
C34_ReuseKeepsEvents ==
    /\ [](oq.hazard_calculation_id # "None"
             => events.rows = ParentEvents(1, Len(results)))
    /\ [][oq.hazard_calculation_id # "None" => events' = events]_vars

\* C34 witness: a reuse run over three stored events has merged a result
\* with rows, has ended without error, and every stored event still has
\* the year it was read with
C34_Witness ==
    /\ oq.hazard_calculation_id # "None"
    /\ pc = "done"
    /\ error = "none"
    /\ gmf_data # <<>>
    /\ Len(events.rows) = 3
    /\ \A i \in 1..3 : events.rows[i].year = 0

\* C35: the write pointer always equals the number of rows of the GMF
\* table, in particular after every merge: it is 0 on the empty table, it
\* moves only in a step that appends rows, by their number, and it never
\* decreases; merging a result without GMF payload leaves the pointer, the
\* table and the index as they were.
C35_PointerIsTableLength ==
    /\ [](offset = TableRows(gmf_data))
    /\ [][/\ BigLeq(offset, offset')
          /\ offset' # offset =>
                /\ Len(gmf_data') > Len(gmf_data)
                /\ \E t \in pending : results[t].gmfdata # <<>>
          /\ \A t \in 1..NumTasks :
                (AggDicts(t) /\ (~results[t].gmdata \/ results[t].gmfdata = <<>>))
                   => UNCHANGED <<offset, gmf_data, indices>>]_vars

\* C35 witness: three results were merged, one of them without rows; the
\* table holds three rows and the pointer is 3
C35_Witness ==
    /\ pc = "reduce"
    /\ pending = {}
    /\ Len(results) = 3
    /\ \E t \in 1..3 : results[t].gmfdata = <<>>
    /\ offset = <<0, 3>>
    /\ TableRows(gmf_data) = <<0, 3>>

\* the table positions [start, stop) of the i-th run of rows of the table
RunRange(i) ==
    LET pos == TableRows(SubSeq(gmf_data, 1, i - 1))
    IN  <<pos, BigAdd(pos, gmf_data[i].n)>>

\* the runs of rows the stored index of site sid designates
Designated(sid) ==
    { i \in 1..Len(gmf_data) :
         \E k \in 1..Len(dset.rows[sid][1]) :
            /\ k <= Len(dset.rows[sid][2])
            /\ RunRange(i) = <<dset.rows[sid][1][k], dset.rows[sid][2][k]>> }

\* the rows the workers made for site sid, by work item
RowsMadeFor(sid) ==
    { [sid |-> sid, n |-> results[t].gmfdata[j].n, task |-> t] :
        <<t, j>> \in { p \in (1..Len(results)) \X (1..NumSites) :
                         /\ results[p[1]].gmdata
                         /\ p[2] <= Len(results[p[1]].gmfdata)
                         /\ results[p[1]].gmfdata[p[2]].sid = sid } }

\* C36: whatever the order in which the results were merged, the ranges
\* stored for a site at the end of execute designate the same rows: each
\* range is one run of rows of the table, no run is designated twice, and
\* the runs designated are exactly the rows the workers made for that site,
\* which do not depend on the order.
C36_IndexedRowsOrderFree ==
    dset.created =>
       \A sid \in 0..(sitecol - 1) :
          /\ Len(dset.rows[sid][1]) = Len(dset.rows[sid][2])
          /\ Cardinality(Designated(sid)) = Len(dset.rows[sid][1])
          /\ { gmf_data[i] : i \in Designated(sid) } = RowsMadeFor(sid)

\* C36 witness: the index was stored after the result of work item 3 was
\* merged first and that of work item 1 last; site 7 has two ranges, the
\* first of which designates rows of work item 3
C36_Witness ==
    /\ dset.created
    /\ Len(gmf_data) >= 3
    /\ gmf_data[1].task = 3
    /\ gmf_data[Len(gmf_data)].task = 1
    /\ Len(dset.rows[7][1]) >= 2
    /\ \E i \in Designated(7) :
          /\ gmf_data[i].task = 3
          /\ RunRange(i)[1] = dset.rows[7][1][1]

\* the number of runs of rows work item t has in the GMF table
RunsOfTask(t) == Cardinality({ i \in 1..Len(gmf_data) : gmf_data[i].task = t })

\* C37: with finitely many work items and workers that each return, the run
\* eventually reaches a terminal state, success or fatal error; on success
\* every submitted work item has returned a result and that result has been
\* merged exactly once: its rows are in the table once, and the curves are
\* those obtained by merging every result once.
C37_TerminatesAllMergedOnce ==
    /\ <>(pc \in {"done", "failed"})
    /\ [](pc = "done" =>
            /\ gen.queue = <<>>
            /\ pending = {}
            /\ DOMAIN results = 1..Len(blocks)
            /\ \A t \in 1..Len(blocks) :
                  /\ results[t] # TaskFailed
                  /\ RunsOfTask(t) = Len(results[t].gmfdata)
            /\ Len(gmf_data) = Len(Chain([t \in 1..Len(blocks) |->
                                             results[t].gmfdata]))
            /\ acc = FoldCurves(Len(blocks), 1..Len(blocks)))

\* C37 witness: a run of three work items has ended with success after
\* merging the results in the order 2, 3, 1
C37_Witness ==
    /\ pc = "done"
    /\ error = "none"
    /\ Len(blocks) = 3
    /\ MergedOrder(gmf_data) = <<2, 3, 1>>

\* the keys of accumulator dddict that hold a specific aggregation-id of
\* event eid
SpecificKeys(dddict, eid, K) ==
    { k \in DOMAIN dddict : k[1] = eid /\ k[2] # K }

====
